---- MODULE Spec2Model ----
(***************************************************************************)
(* Transport and session resilience layer of the mytube Android client:    *)
(* the in-flight request ledger (core/api/inFlight.ts), the transport       *)
(* client's retry and reauthentication policy (core/api/client.ts), the     *)
(* error classifier (core/api/errors.ts) and the envelope unwrapper         *)
(* (core/api/unwrap.ts), and the session provider (core/auth/AuthContext).  *)
(*                                                                         *)
(* JavaScript runs to completion: a synchronous function body is one        *)
(* action.  Promise reactions are jobs of a FIFO microtask queue; each job  *)
(* is one action.  Calls, awaits and settlements of the underlying          *)
(* operation are initiated by code outside the modelled functions and may   *)
(* happen between any two jobs.                                             *)
(***************************************************************************)
EXTENDS Integers, Sequences, FiniteSets, TLC

VARIABLES
    ledger,       \* inFlightRequests: key -> registered request (NoEntry if none)
    promises,     \* the request promises created by withInFlightKey, by creator
    calls,        \* one record per withInFlightKey call site
    invoked,      \* number of times each caller's requestFactory has been run
    microtasks,   \* FIFO queue of pending promise jobs
    request,      \* one call through the axios instance and its request config
    onUnauthorized, \* the registered reauthentication callback (NoHandler if null)
    arg,          \* the input of the pure function under evaluation
    ret,          \* its result (Undefined until it has been applied)
    state,        \* AuthProvider's AuthState
    storage,      \* the role store: the string under 'auth.role', and its health
    runs,         \* the running calls of the provider's async operations
    player        \* the video screen's progress writer: its refs and its writes

inFlightVars == <<ledger, promises, calls, invoked, microtasks>>
transportVars == <<request, onUnauthorized>>
pureVars == <<arg, ret>>
sessionVars == <<state, storage, runs>>
playerVars == <<player>>

vars == <<inFlightVars, transportVars, pureVars, sessionVars, playerVars>>


(***************************************************************************)
(* JavaScript values                                                        *)
(***************************************************************************)

Undefined == [t |-> "undefined"]
JNull == [t |-> "null"]
JBool(b) == [t |-> "bool", v |-> b]
JNum(n) == [t |-> "num", v |-> n]
JStr(s) == [t |-> "str", v |-> s]
JArr(items) == [t |-> "arr", v |-> items]
\* An object: a function from its own keys to values.
JObj(fields) == [t |-> "obj", v |-> fields]

\* value == null
Nullish(x) == x.t \in {"undefined", "null"}

\* ToBoolean(value)
Truthy(x) ==
    CASE x.t \in {"undefined", "null"} -> FALSE
      [] x.t = "bool" -> x.v
      [] x.t = "num" -> x.v # 0
      [] x.t = "str" -> x.v # ""
      [] OTHER -> TRUE

\* key in value, for a value whose typeof is 'object'
HasKey(x, key) == x.t = "obj" /\ key \in DOMAIN x.v

\* value.key (undefined when the property does not exist)
Get(x, key) == IF HasKey(x, key) THEN x.v[key] ELSE Undefined

\* typeof value === 'number'
IsNumber(x) == x.t = "num"

\* a ?? b
Coalesce(a, b) == IF Nullish(a) THEN b ELSE a

(***************************************************************************)
(* Strings, as sequences of one-character strings                           *)
(***************************************************************************)

LowerCase == <<"a", "b", "c", "d", "e", "f", "g", "h", "i", "j", "k", "l", "m",
               "n", "o", "p", "q", "r", "s", "t", "u", "v", "w", "x", "y", "z">>
UpperCase == <<"A", "B", "C", "D", "E", "F", "G", "H", "I", "J", "K", "L", "M",
               "N", "O", "P", "Q", "R", "S", "T", "U", "V", "W", "X", "Y", "Z">>

ToUpperChar(ch) ==
    IF \E i \in DOMAIN LowerCase : LowerCase[i] = ch
    THEN UpperCase[CHOOSE i \in DOMAIN LowerCase : LowerCase[i] = ch]
    ELSE ch

\* String.prototype.toUpperCase
ToUpperCase(text) == [i \in DOMAIN text |-> ToUpperChar(text[i])]

RECURSIVE TrimStart(_)
TrimStart(text) ==
    IF text # <<>> /\ Head(text) = " " THEN TrimStart(Tail(text)) ELSE text

RECURSIVE TrimEnd(_)
TrimEnd(text) ==
    IF text # <<>> /\ text[Len(text)] = " "
    THEN TrimEnd(SubSeq(text, 1, Len(text) - 1))
    ELSE text

\* String.prototype.trim
Trim(text) == TrimEnd(TrimStart(text))

(***************************************************************************)
(* Error classifier (core/api/errors.ts)                                    *)
(***************************************************************************)

AppErrorCode ==
    {"UNAUTHENTICATED", "FORBIDDEN", "VALIDATION", "NOT_FOUND", "CONFLICT",
     "RATE_LIMIT", "SERVER", "NETWORK", "UNKNOWN"}

mapStatusToCode(status) ==
    CASE status = 401 -> "UNAUTHENTICATED"
      [] status = 403 -> "FORBIDDEN"
      [] status = 404 -> "NOT_FOUND"
      [] status = 409 -> "CONFLICT"
      [] status = 429 -> "RATE_LIMIT"
      [] status = 400 -> "VALIDATION"
      [] OTHER -> IF status >= 500 THEN "SERVER" ELSE "UNKNOWN"

\* `Request failed (${status})`
RequestFailedMessage(status) == [t |-> "str", v |-> "Request failed", status |-> status]

\* body?.error ?? body?.message ?? fallback
getMessage(body, fallback) ==
    Coalesce(Get(body, "error"), Coalesce(Get(body, "message"), fallback))

\* A retry hint is undefined, a number of seconds, or a string.  A string
\* is described by what Number() and Date.parse() make of its trimmed text:
\* [t |-> "str", v |-> ..., seconds |-> n] is numeric text denoting n >= 0,
\* [t |-> "str", v |-> ..., deltaMs |-> d] is a date d ms from Date.now().
parseRetryAfterMs(value) ==
    IF IsNumber(value) /\ value.v >= 0
    THEN JNum(value.v * 1000)
    ELSE IF value.t # "str" THEN Undefined
    ELSE IF value.v = "" THEN Undefined
    ELSE IF "seconds" \in DOMAIN value THEN JNum(value.seconds * 1000)
    ELSE IF "deltaMs" \notin DOMAIN value THEN Undefined
    ELSE IF value.deltaMs <= 0 THEN JNum(0)
    ELSE JNum(value.deltaMs)

\* The AppError of the absent-body branch: httpStatus and the body-derived
\* fields are not set.
NetworkError(message, retryAfterMs) ==
    [code |-> "NETWORK", httpStatus |-> Undefined, message |-> message,
     backendType |-> Undefined, recoverable |-> Undefined,
     waitTimeMs |-> Undefined, retryAfterMs |-> retryAfterMs, raw |-> Undefined]

\* The effective status without the body's statusCode.
EffectiveStatus_WireOnly(httpStatus, b) == httpStatus

\* b.success === false && typeof b.statusCode === 'number' ? b.statusCode : httpStatus
EffectiveStatus(httpStatus, b) ==
    IF Get(b, "success") = JBool(FALSE) /\ IsNumber(Get(b, "statusCode"))
    THEN Get(b, "statusCode").v
    ELSE httpStatus

parseApiError(httpStatus, body, networkMessage, retryAfter) ==
    LET retryAfterMs == parseRetryAfterMs(retryAfter) IN
    IF Nullish(body) /\ Truthy(networkMessage)
    THEN NetworkError(networkMessage, retryAfterMs)
    ELSE LET b == Coalesce(body, JObj(<<>>))
             effectiveStatus == EffectiveStatus(httpStatus, b)
         IN [code |-> mapStatusToCode(effectiveStatus),
             httpStatus |-> JNum(effectiveStatus),
             message |-> getMessage(b, RequestFailedMessage(effectiveStatus)),
             backendType |-> Get(b, "type"),
             recoverable |-> Get(b, "recoverable"),
             waitTimeMs |-> IF IsNumber(Get(b, "waitTime"))
                            THEN Get(b, "waitTime") ELSE Undefined,
             retryAfterMs |-> retryAfterMs,
             raw |-> body]

NO_RETRY_STATUSES == {400, 401, 403, 404, 409, 429}

\* shouldRetry that retries every SERVER error, whatever its status.
shouldRetry_AnyServer(error) == error.code \in {"NETWORK", "SERVER"}

shouldRetry(error) ==
    IF error.code = "NETWORK" THEN TRUE
    ELSE IF /\ error.code = "SERVER"
            /\ Truthy(error.httpStatus)
            /\ error.httpStatus.v >= 500
    THEN TRUE
    ELSE IF Truthy(error.httpStatus) /\ error.httpStatus.v \in NO_RETRY_STATUSES
    THEN FALSE
    ELSE FALSE

(***************************************************************************)
(* Envelope unwrapper (core/api/unwrap.ts)                                  *)
(***************************************************************************)

\* typeof value === 'object' (null included, as in JavaScript)
IsObjectType(x) == x.t \in {"obj", "arr", "null"}

\* unwrap that tests success for truthiness instead of === true.
unwrap_TruthySuccess(raw) ==
    IF /\ Truthy(raw)
       /\ IsObjectType(raw)
       /\ HasKey(raw, "success")
       /\ Truthy(Get(raw, "success"))
       /\ HasKey(raw, "data")
    THEN Get(raw, "data")
    ELSE raw

\* unwrap that keeps stripping until the value is no longer an envelope.
RECURSIVE unwrap_AllLayers(_)
unwrap_AllLayers(raw) ==
    IF /\ Truthy(raw)
       /\ IsObjectType(raw)
       /\ HasKey(raw, "success")
       /\ Get(raw, "success") = JBool(TRUE)
       /\ HasKey(raw, "data")
    THEN unwrap_AllLayers(Get(raw, "data"))
    ELSE raw

unwrap(raw) ==
    IF /\ Truthy(raw)
       /\ IsObjectType(raw)
       /\ HasKey(raw, "success")
       /\ Get(raw, "success") = JBool(TRUE)
       /\ HasKey(raw, "data")
    THEN Get(raw, "data")
    ELSE raw

(***************************************************************************)
(* In-flight ledger                                                         *)
(***************************************************************************)

\* Number of withInFlightKey calls of a run.  Call c is the c-th call made and
\* supplies its own requestFactory, whose result is tagged c.
NumCalls == 3

Callers == 1 .. NumCalls

\* The normalized keys the calls choose from.
Keys == {"POST /videos/abc/view", "POST /collections"}

\* Map.get(key) of an absent key (undefined).
NoEntry == 0

Pending == {"scheduled", "running"}
Settled == {"fulfilled", "rejected"}

\* promises[p] is the request created by call p: its state ("scheduled" until
\* the job of Promise.resolve().then(requestFactory) runs, then "running",
\* then "fulfilled" or "rejected"), its key, its value (the tag of the factory
\* that produced it), the callers awaiting it, whether its finally callback
\* has run (cleaned) and how many times that callback deleted the entry.
\* A request that has not been created:
NoPromise ==
    [state |-> "none", key |-> "", value |-> 0, waiters |-> <<>>,
     cleaned |-> FALSE, removals |-> 0]

\* calls[c] is the c-th call: "idle" before it is made, "holding" once
\* withInFlightKey has returned, "awaiting" once the caller awaits the handle,
\* "observed" once its continuation has run with the outcome (seenKind,
\* seenValue).  found, handleState, handleCleaned and peer record what the
\* ledger and the handle were when the call returned.
\* A call that has not been made:
NoCall ==
    [status |-> "idle", key |-> "", handle |-> 0, found |-> 0,
     handleState |-> "none", handleCleaned |-> FALSE, peer |-> 0,
     seenKind |-> "none", seenValue |-> 0]

\* The creator of an operation of key k that is still pending (0 if none):
\* bookkeeping for "the call overlaps an unsettled operation".
PendingOwner(k) ==
    IF \E p \in Callers : promises[p].key = k /\ promises[p].state \in Pending
    THEN CHOOSE p \in Callers : promises[p].key = k /\ promises[p].state \in Pending
    ELSE 0

\* History fields of a call: what the ledger held and what the handle was
\* when the call returned.
CallRecord(k, handle, found) ==
    [status |-> "holding", key |-> k, handle |-> handle, found |-> found,
     handleState |-> IF promises[handle].state = "none" THEN "scheduled"
                     ELSE promises[handle].state,
     handleCleaned |-> promises[handle].cleaned,
     peer |-> PendingOwner(k),
     seenKind |-> "none", seenValue |-> 0]


\* withInFlightKey without the lookup: every call registers its own request.
withInFlightKey_NoLookup(c, k) ==
    /\ UNCHANGED <<transportVars, pureVars, playerVars, sessionVars>>
    /\ calls[c].status = "idle"
    /\ \A b \in Callers : b < c => calls[b].status # "idle"
    /\ promises' = [promises EXCEPT ![c] =
           [state |-> "scheduled", key |-> k, value |-> 0,
            waiters |-> <<>>, cleaned |-> FALSE, removals |-> 0]]
    /\ ledger' = [ledger EXCEPT ![k] = c]
    /\ microtasks' = Append(microtasks, [job |-> "factory", id |-> c])
    /\ calls' = [calls EXCEPT ![c] = CallRecord(k, c, ledger[k])]
    /\ UNCHANGED invoked

\* withInFlightKey whose guard only skips the registration: a call that finds
\* an entry still runs its own factory, on a request it does not register.
withInFlightKey_RunsOwnFactory(c, k) ==
    /\ UNCHANGED <<transportVars, pureVars, playerVars, sessionVars>>
    /\ calls[c].status = "idle"
    /\ \A b \in Callers : b < c => calls[b].status # "idle"
    /\ promises' = [promises EXCEPT ![c] =
           [state |-> "scheduled", key |-> k, value |-> 0,
            waiters |-> <<>>, cleaned |-> FALSE, removals |-> 0]]
    /\ ledger' = IF ledger[k] = NoEntry THEN [ledger EXCEPT ![k] = c] ELSE ledger
    /\ microtasks' = Append(microtasks, [job |-> "factory", id |-> c])
    /\ calls' = [calls EXCEPT ![c] = CallRecord(k, c, ledger[k])]
    /\ UNCHANGED invoked

\* withInFlightKey that runs the factory inside the call and registers the
\* handle the factory returned.
withInFlightKey_InvokesFirst(c, k) ==
    /\ UNCHANGED <<transportVars, pureVars, playerVars, sessionVars>>
    /\ calls[c].status = "idle"
    /\ \A b \in Callers : b < c => calls[b].status # "idle"
    /\ LET existing == ledger[k] IN
       IF existing # NoEntry
       THEN /\ calls' = [calls EXCEPT ![c] = CallRecord(k, existing, existing)]
            /\ UNCHANGED <<ledger, promises, invoked, microtasks>>
       ELSE /\ promises' = [promises EXCEPT ![c] =
                   [state |-> "running", key |-> k, value |-> 0,
                    waiters |-> <<>>, cleaned |-> FALSE, removals |-> 0]]
            /\ invoked' = [invoked EXCEPT ![c] = @ + 1]
            /\ ledger' = [ledger EXCEPT ![k] = c]
            /\ calls' = [calls EXCEPT ![c] =
                   [CallRecord(k, c, NoEntry) EXCEPT !.handleState = "running"]]
            /\ UNCHANGED microtasks

\* withInFlightKey(key, requestFactory), called by c with its own factory.
withInFlightKey(c, k) ==
    /\ UNCHANGED <<transportVars, pureVars, playerVars, sessionVars>>
    /\ calls[c].status = "idle"
    /\ \A b \in Callers : b < c => calls[b].status # "idle"
    /\ LET existing == ledger[k] IN
       IF existing # NoEntry
       THEN \* if (existing) return existing
            /\ calls' = [calls EXCEPT ![c] = CallRecord(k, existing, existing)]
            /\ UNCHANGED <<ledger, promises, invoked, microtasks>>
       ELSE \* request = Promise.resolve().then(requestFactory); set; finally
            /\ promises' = [promises EXCEPT ![c] =
                   [state |-> "scheduled", key |-> k, value |-> 0,
                    waiters |-> <<>>, cleaned |-> FALSE, removals |-> 0]]
            /\ ledger' = [ledger EXCEPT ![k] = c]
            /\ microtasks' = Append(microtasks, [job |-> "factory", id |-> c])
            /\ calls' = [calls EXCEPT ![c] = CallRecord(k, c, NoEntry)]
            /\ UNCHANGED invoked

\* The caller awaits the handle it was given (attaches its continuation).
AwaitHandle(c) ==
    /\ UNCHANGED <<transportVars, pureVars, playerVars, sessionVars>>
    /\ calls[c].status = "holding"
    /\ LET p == calls[c].handle IN
       /\ calls' = [calls EXCEPT ![c].status = "awaiting"]
       /\ IF promises[p].state \in Settled
          THEN /\ microtasks' = Append(microtasks, [job |-> "reaction", id |-> c])
               /\ UNCHANGED promises
          ELSE /\ promises' = [promises EXCEPT ![p].waiters = Append(@, c)]
               /\ UNCHANGED microtasks
    /\ UNCHANGED <<ledger, invoked>>

\* The job of Promise.resolve().then(requestFactory): the factory is run.
RunFactory ==
    /\ UNCHANGED <<transportVars, pureVars, playerVars, sessionVars>>
    /\ microtasks # <<>>
    /\ Head(microtasks).job = "factory"
    /\ LET p == Head(microtasks).id IN
       /\ promises' = [promises EXCEPT ![p].state = "running"]
       /\ invoked' = [invoked EXCEPT ![p] = @ + 1]
    /\ microtasks' = Tail(microtasks)
    /\ UNCHANGED <<ledger, calls>>

Reactions(waiters) ==
    [i \in 1 .. Len(waiters) |-> [job |-> "reaction", id |-> waiters[i]]]

\* A settlement whose cleanup reaction is queued behind the continuations of
\* the callers that await the request.
Settle_ContinuationsFirst(p, ok) ==
    /\ UNCHANGED <<transportVars, pureVars, playerVars, sessionVars>>
    /\ promises[p].state = "running"
    /\ promises' = [promises EXCEPT
           ![p].state = IF ok THEN "fulfilled" ELSE "rejected",
           ![p].value = p,
           ![p].waiters = <<>>]
    /\ microtasks' = microtasks \o Reactions(promises[p].waiters)
                       \o <<[job |-> "finally", id |-> p]>>
    /\ UNCHANGED <<ledger, calls, invoked>>

\* The request of call p settles with the outcome of its factory: the finally
\* reaction, registered inside withInFlightKey, is queued ahead of the
\* continuations of the callers that await the request.  Jobs queued earlier
\* by other code run before it, so a call can still find the settled request
\* in the ledger.
Settle(p, ok) ==
    /\ UNCHANGED <<transportVars, pureVars, playerVars, sessionVars>>
    /\ promises[p].state = "running"
    /\ promises' = [promises EXCEPT
           ![p].state = IF ok THEN "fulfilled" ELSE "rejected",
           ![p].value = p,
           ![p].waiters = <<>>]
    /\ microtasks' = microtasks \o <<[job |-> "finally", id |-> p]>>
                       \o Reactions(promises[p].waiters)
    /\ UNCHANGED <<ledger, calls, invoked>>

\* The finally callback without the delete.
FinallyCleanup_NoDelete ==
    /\ UNCHANGED <<transportVars, pureVars, playerVars, sessionVars>>
    /\ microtasks # <<>>
    /\ Head(microtasks).job = "finally"
    /\ promises' = [promises EXCEPT ![Head(microtasks).id].cleaned = TRUE]
    /\ microtasks' = Tail(microtasks)
    /\ UNCHANGED <<ledger, calls, invoked>>

\* The finally callback without the identity test: it deletes whatever is
\* registered under the key.
FinallyCleanup_AlwaysDelete ==
    /\ UNCHANGED <<transportVars, pureVars, playerVars, sessionVars>>
    /\ microtasks # <<>>
    /\ Head(microtasks).job = "finally"
    /\ LET p == Head(microtasks).id
           k == promises[p].key IN
       /\ ledger' = [ledger EXCEPT ![k] = NoEntry]
       /\ promises' = [promises EXCEPT ![p].cleaned = TRUE,
                                       ![p].removals = @ + 1]
    /\ microtasks' = Tail(microtasks)
    /\ UNCHANGED <<calls, invoked>>

\* The callback of request.finally.
FinallyCleanup ==
    /\ UNCHANGED <<transportVars, pureVars, playerVars, sessionVars>>
    /\ microtasks # <<>>
    /\ Head(microtasks).job = "finally"
    /\ LET p == Head(microtasks).id
           k == promises[p].key IN
       IF ledger[k] = p
       THEN /\ ledger' = [ledger EXCEPT ![k] = NoEntry]
            /\ promises' = [promises EXCEPT ![p].cleaned = TRUE,
                                            ![p].removals = @ + 1]
       ELSE /\ promises' = [promises EXCEPT ![p].cleaned = TRUE]
            /\ UNCHANGED ledger
    /\ microtasks' = Tail(microtasks)
    /\ UNCHANGED <<calls, invoked>>

\* A caller's continuation observes the outcome of its handle.
Observe ==
    /\ UNCHANGED <<transportVars, pureVars, playerVars, sessionVars>>
    /\ microtasks # <<>>
    /\ Head(microtasks).job = "reaction"
    /\ LET c == Head(microtasks).id
           p == calls[c].handle IN
       calls' = [calls EXCEPT ![c].status = "observed",
                              ![c].seenKind = promises[p].state,
                              ![c].seenValue = promises[p].value]
    /\ microtasks' = Tail(microtasks)
    /\ UNCHANGED <<ledger, promises, invoked>>

(***************************************************************************)
(* In-flight keys (core/api/inFlight.ts) and the write operations of the    *)
(* endpoint layer (core/api/endpoints)                                      *)
(*                                                                          *)
(* A target is a sequence of symbols.  "/", "?", "#" and " " are the        *)
(* characters themselves, "http:" and "https:" are the scheme prefixes, and *)
(* any other symbol is a character, or a run of characters, that none of    *)
(* the patterns below tells apart.                                          *)
(***************************************************************************)

\* The number of leading symbols of text that are not in stops.
RECURSIVE SpanLen(_, _)
SpanLen(text, stops) ==
    IF text = <<>> \/ Head(text) \in stops THEN 0
    ELSE 1 + SpanLen(Tail(text), stops)

Drop(text, n) == SubSeq(text, n + 1, Len(text))

\* text.replace(/\/{2,}/g, '/')
RECURSIVE CollapseSlashes(_)
CollapseSlashes(text) ==
    IF Len(text) < 2 THEN text
    ELSE IF text[1] = "/" /\ text[2] = "/" THEN CollapseSlashes(Tail(text))
    ELSE <<Head(text)>> \o CollapseSlashes(Tail(text))

\* text.replace(/\/+$/, '')
RECURSIVE StripTrailingSlashes(_)
StripTrailingSlashes(text) ==
    IF text # <<>> /\ text[Len(text)] = "/"
    THEN StripTrailingSlashes(SubSeq(text, 1, Len(text) - 1))
    ELSE text

\* rawPath.replace(/\/{2,}/g, '/').replace(/\/+$/, '') || '/'
NormalizeSlashes(text) ==
    LET stripped == StripTrailingSlashes(CollapseSlashes(text))
    IN IF stripped = <<>> THEN <<"/">> ELSE stripped

\* split('?') keeps the first two parts: the text before the first "?" and
\* the text between the first and the second.
normalizePath(path) ==
    LET trimmed == Trim(path) IN
    IF trimmed = <<>> THEN <<"/">>
    ELSE LET withLeadingSlash ==
                 IF Head(trimmed) = "/" THEN trimmed ELSE <<"/">> \o trimmed
             pathLen == SpanLen(withLeadingSlash, {"?"})
             rawPath == SubSeq(withLeadingSlash, 1, pathLen)
             afterMark == Drop(withLeadingSlash, pathLen + 1)
             rawQuery == SubSeq(afterMark, 1, SpanLen(afterMark, {"?"}))
             normalizedPath == NormalizeSlashes(rawPath)
         IN IF rawQuery # <<>>
            THEN normalizedPath \o <<"?">> \o rawQuery
            ELSE normalizedPath

\* trimmed.startsWith('http://') || trimmed.startsWith('https://')
StartsWithScheme(text) ==
    /\ Len(text) >= 3
    /\ text[1] \in {"http:", "https:"}
    /\ text[2] = "/" /\ text[3] = "/"

\* match(/^(https?:\/\/[^/?#]+)(\/[^?#]*)?(\?[^#]*)?/i): the origin, an
\* optional path and an optional query; what follows is left out.
normalizeAbsoluteUrl(urlText) ==
    LET text == Trim(urlText)
        host == SpanLen(Drop(text, 3), {"/", "?", "#"})
    IN IF ~StartsWithScheme(text) \/ host = 0 THEN normalizePath(urlText)
       ELSE LET origin == SubSeq(text, 1, 3 + host)
                rest == Drop(text, 3 + host)
                pathLen == IF rest # <<>> /\ Head(rest) = "/"
                           THEN SpanLen(rest, {"?", "#"}) ELSE 0
                afterPath == Drop(rest, pathLen)
                queryLen == IF afterPath # <<>> /\ Head(afterPath) = "?"
                            THEN SpanLen(afterPath, {"#"}) ELSE 0
                path == NormalizeSlashes(IF pathLen = 0 THEN <<"/">>
                                         ELSE SubSeq(rest, 1, pathLen))
            IN StripTrailingSlashes(origin) \o path
                   \o SubSeq(afterPath, 1, queryLen)

normalizeTarget(target) ==
    LET trimmed == Trim(target) IN
    IF trimmed = <<>> THEN <<"/">>
    ELSE IF StartsWithScheme(trimmed) THEN normalizeAbsoluteUrl(trimmed)
    ELSE normalizePath(trimmed)

buildInFlightKey(method, target) ==
    ToUpperCase(Trim(method)) \o <<" ">> \o normalizeTarget(target)

\* The string a key is: its symbols one after the other.
RECURSIVE KeyText(_)
KeyText(key) == IF key = <<>> THEN "" ELSE Head(key) \o KeyText(Tail(key))

\* The method literals of the endpoint layer.
POST == <<"P", "O", "S", "T">>
PUT == <<"P", "U", "T">>
PATCH == <<"P", "A", "T", "C", "H">>
DELETE == <<"D", "E", "L", "E", "T", "E">>

\* The arguments the write operations are called with.
VideoIds == {"abc"}
CollectionIds == {"c1"}

\* A call of a write operation: the client function it goes through
\* (apiPost calls api.post, and so on), the url and the in-flight key it
\* passes.
WriteCall(op, via, path, inFlightKey) ==
    [op |-> op, via |-> via, url |-> path, inFlightKey |-> inFlightKey]

\* The write operations of the auth and video endpoints.
AuthAndVideoWrites ==
    {LET path == <<"/", "settings", "/", "verify-admin-password">>
     IN WriteCall("verifyAdminPassword", "apiPost", path,
                  buildInFlightKey(POST, path)),
     LET path == <<"/", "settings", "/", "verify-visitor-password">>
     IN WriteCall("verifyVisitorPassword", "apiPost", path,
                  buildInFlightKey(POST, path)),
     LET path == <<"/", "settings", "/", "passkeys", "/", "authenticate">>
     IN WriteCall("passkeysAuthenticate", "apiPost", path,
                  buildInFlightKey(POST, path)),
     LET path == <<"/", "settings", "/", "passkeys", "/", "authenticate",
                   "/", "verify">>
     IN WriteCall("passkeysAuthenticateVerify", "apiPost", path,
                  buildInFlightKey(POST, path)),
     LET path == <<"/", "settings", "/", "logout">>
     IN WriteCall("logout", "apiPost", path, buildInFlightKey(POST, path))}
    \cup
    UNION {
      {LET path == <<"/", "videos", "/", id, "/", "view">>
       IN WriteCall("postVideoView", "apiPost", path,
                    buildInFlightKey(POST, path)),
       LET path == <<"/", "videos", "/", id, "/", "progress">>
       IN WriteCall("putVideoProgress", "apiPut", path,
                    buildInFlightKey(PUT, path)),
       LET path == <<"/", "videos", "/", id, "/", "rate">>
       IN WriteCall("postVideoRate", "apiPost", path,
                    buildInFlightKey(POST, path))} : id \in VideoIds}

\* `?deleteVideos=${deleteVideos}` when the flag is given, '' when it is not
DeleteVideosQuery(deleteVideos) ==
    IF Nullish(deleteVideos) THEN <<>>
    ELSE <<"?", "deleteVideos=", IF deleteVideos.v THEN "true" ELSE "false">>

\* The write operations of the collection endpoints.
CollectionWrites ==
    {LET path == <<"/", "collections">>
     IN WriteCall("createCollection", "apiPost", path,
                  buildInFlightKey(POST, path))}
    \cup
    UNION {
      {LET path == <<"/", "collections", "/", id>>
       IN WriteCall("updateCollection", "apiPut", path,
                    buildInFlightKey(PUT, path))}
      \cup
      {LET path == <<"/", "collections", "/", id>> \o DeleteVideosQuery(flag)
       IN WriteCall("deleteCollection", "apiDelete", path,
                    buildInFlightKey(DELETE, path)) :
          flag \in {Undefined, JBool(TRUE), JBool(FALSE)}} :
      id \in CollectionIds}

\* The write operation of the settings endpoints, in the two versions the
\* repository holds.
SettingsWrites ==
    {LET path == <<"/", "settings">>
     IN WriteCall("updateSettings", "apiPost", path,
                  buildInFlightKey(POST, path)),
     LET path == <<"/", "settings">>
     IN WriteCall("updateSettings", "apiPatch", path,
                  buildInFlightKey(PATCH, path))}

WriteCalls == AuthAndVideoWrites \cup CollectionWrites \cup SettingsWrites

\* The ledger key (a string) each write operation passes, if it passes one.
LedgerKeyOf ==
    [e \in WriteCalls |->
        IF e.inFlightKey = JNull THEN "" ELSE KeyText(e.inFlightKey)]

\* The keys the ledger can hold in a run of the endpoint layer.
EndpointKeys == {LedgerKeyOf[e] : e \in WriteCalls} \ {""}

\* apiPost, apiPut, apiPatch and apiDelete that never go through the guard.
apiWrite_Unguarded(c, e) == withInFlightKey_NoLookup(c, LedgerKeyOf[e])

\* apiPost, apiPut, apiPatch and apiDelete, called by c for the write e.
\* Without a key runRequest() is called at once, and sends the request
\* within the call; no write operation takes that branch.
apiWrite(c, e) ==
    IF e.inFlightKey = JNull
    THEN /\ UNCHANGED <<transportVars, pureVars, playerVars, sessionVars>>
         /\ calls[c].status = "idle"
         /\ \A b \in Callers : b < c => calls[b].status # "idle"
         /\ promises' = [promises EXCEPT ![c] =
                [NoPromise EXCEPT !.state = "running"]]
         /\ invoked' = [invoked EXCEPT ![c] = @ + 1]
         /\ calls' = [calls EXCEPT ![c] =
                [NoCall EXCEPT !.status = "holding", !.handle = c,
                               !.handleState = "running"]]
         /\ UNCHANGED <<ledger, microtasks>>
    ELSE withInFlightKey(c, LedgerKeyOf[e])


(***************************************************************************)
(* Transport client (core/api/client.ts)                                    *)
(***************************************************************************)

MAX_RETRIES == 2
RETRY_DELAY_MS == 1000

RETRYABLE_METHODS ==
    {<<"G", "E", "T">>, <<"H", "E", "A", "D">>,
     <<"O", "P", "T", "I", "O", "N", "S">>}

\* config.method: a string, or undefined.
MethodText(text) == [defined |-> TRUE, text |-> text]
MethodUndefined == [defined |-> FALSE, text |-> <<>>]

\* isRetryableMethod without the allow-list: any non-blank method is retryable.
isRetryableMethod_AnyMethod(method) ==
    IF ~method.defined THEN FALSE
    ELSE Len(ToUpperCase(Trim(method.text))) # 0

isRetryableMethod(method) ==
    IF ~method.defined THEN FALSE
    ELSE LET normalizedMethod == ToUpperCase(Trim(method.text)) IN
         IF Len(normalizedMethod) = 0 THEN FALSE
         ELSE normalizedMethod \in RETRYABLE_METHODS

\* shouldTriggerReauth that treats FORBIDDEN like UNAUTHENTICATED.
shouldTriggerReauth_AnyForbidden(method, appError) ==
    appError.code \in {"UNAUTHENTICATED", "FORBIDDEN"}

shouldTriggerReauth(method, appError) ==
    IF appError.code = "UNAUTHENTICATED" THEN TRUE
    ELSE IF appError.code = "FORBIDDEN" /\ isRetryableMethod(method) THEN TRUE
    ELSE FALSE

\* The methods requests are made with, as written by callers.
ReadMethodInputs ==
    {MethodText(<<"G", "E", "T">>), MethodText(<<"g", "e", "t">>),
     MethodText(<<"h", "e", "a", "d">>),
     MethodText(<<" ", "O", "P", "T", "I", "O", "N", "S", " ">>)}
WriteMethodInputs ==
    {MethodText(<<"P", "O", "S", "T">>), MethodText(<<"p", "o", "s", "t">>),
     MethodText(<<"P", "U", "T">>), MethodText(<<"P", "A", "T", "C", "H">>),
     MethodText(<<"D", "E", "L", "E", "T", "E">>)}
OtherMethodInputs ==
    {MethodUndefined, MethodText(<<>>), MethodText(<<" ", " ">>),
     MethodText(<<"T", "R", "A", "C", "E">>)}
MethodInputs == ReadMethodInputs \cup WriteMethodInputs \cup OtherMethodInputs

NoHandler == "null"
\* forceSignedOut is the callback the session provider registers.
Handlers == {"forceSignedOut", "replaced"}

\* Bodies of error responses.
ErrorBodies ==
    {Undefined,
     JStr("<html>Bad Gateway</html>"),
     JObj([error |-> JStr("Duplicate"), type |-> JStr("duplicate"),
           recoverable |-> JBool(TRUE)]),
     JObj([success |-> JBool(FALSE), message |-> JStr("Too many attempts"),
           statusCode |-> JNum(429), waitTime |-> JNum(120000)]),
     JObj([success |-> JBool(FALSE), statusCode |-> JNum(401)]),
     JObj([success |-> JBool(FALSE), statusCode |-> JNum(503)])}

\* Wire statuses axios rejects (validateStatus accepts 2xx only).
FailureStatuses == {400, 401, 403, 404, 409, 418, 429, 500, 503}

RetryAfterHeaders == {Undefined, [t |-> "str", v |-> "120", seconds |-> 120]}

\* An AxiosError of a request that was dispatched: with a response (status,
\* data, headers), or without one (timeout, connection failure).
WireFailures ==
    {[response |-> TRUE, status |-> s, data |-> d, code |-> "ERR_BAD_RESPONSE",
      message |-> JStr("Request failed"), retryAfter |-> h] :
        s \in FailureStatuses, d \in ErrorBodies, h \in RetryAfterHeaders}
    \cup
    {[response |-> FALSE, status |-> 0, data |-> Undefined, code |-> c,
      message |-> m, retryAfter |-> Undefined] :
        c \in {"ECONNABORTED", "ERR_NETWORK"},
        m \in {JStr(""), JStr("Network Error")}}

\* Bodies of 2xx responses.
SuccessBodies ==
    {JArr(<<JObj([id |-> JStr("v1")])>>),
     JObj([success |-> JBool(TRUE), data |-> JObj([id |-> JStr("v2")])]),
     JObj([success |-> JBool(FALSE), statusCode |-> JNum(401),
           message |-> JStr("Incorrect password")]),
     JObj([success |-> JBool(FALSE), statusCode |-> JNum(429),
           waitTime |-> JNum(120000)])}

IdleRequest ==
    [phase |-> "idle", method |-> MethodUndefined, retryCount |-> Undefined,
     attempts |-> 0, failures |-> 0, delays |-> <<>>, error |-> Undefined,
     result |-> Undefined, reauth |-> <<>>]

setUnauthorizedHandler(handler) ==
    /\ onUnauthorized' = handler
    /\ UNCHANGED <<request, inFlightVars, pureVars, playerVars, sessionVars>>

\* api.request(config) reaches the adapter: one wire attempt.
Dispatch(method) ==
    /\ request.phase = "idle"
    /\ request' = [request EXCEPT !.phase = "sent", !.method = method,
                                  !.attempts = 1]
    /\ UNCHANGED <<onUnauthorized, inFlightVars, pureVars, playerVars, sessionVars>>

\* onUnauthorized?.(): the log records the slot's content at the call; a
\* NoHandler entry is the optional call doing nothing.
InvokeHandler(log) == Append(log, onUnauthorized)

\* The request fails before it is dispatched (transformRequest throws): the
\* rejection carries no config and no response.
RejectedWithoutConfig(method, message) ==
    /\ request.phase = "idle"
    /\ LET fallbackError ==
               parseApiError(0, Undefined,
                             IF Truthy(message) THEN message
                             ELSE JStr("Network error"),
                             Undefined)
       IN request' = [request EXCEPT
              !.phase = "rejected", !.method = method,
              !.error = fallbackError,
              !.reauth = IF fallbackError.code = "UNAUTHENTICATED"
                         THEN InvokeHandler(@) ELSE @]
    /\ UNCHANGED <<onUnauthorized, inFlightVars, pureVars, playerVars, sessionVars>>

\* A fulfilled handler that classifies a {success: false} body like an error
\* response.
Fulfilled_ClassifiesBody(body) ==
    /\ request.phase = "sent"
    /\ IF Get(body, "success") = JBool(FALSE)
       THEN LET appError == parseApiError(200, body, Undefined, Undefined)
            IN request' = [request EXCEPT
                   !.phase = "rejected", !.error = appError,
                   !.reauth = IF shouldTriggerReauth(request.method, appError)
                              THEN InvokeHandler(@) ELSE @]
       ELSE request' = [request EXCEPT !.phase = "resolved",
                                       !.result = unwrap(body)]
    /\ UNCHANGED <<onUnauthorized, inFlightVars, pureVars, playerVars, sessionVars>>

\* The response interceptor's fulfilled handler, then apiGet/apiPost's unwrap.
Fulfilled(body) ==
    /\ request.phase = "sent"
    /\ request' = [request EXCEPT !.phase = "resolved", !.result = unwrap(body)]
    /\ UNCHANGED <<onUnauthorized, inFlightVars, pureVars, playerVars, sessionVars>>

\* error.code === 'ECONNABORTED' ? 'Request timeout' : error.message || 'Network error'
NetworkMessage(failure) ==
    IF failure.code = "ECONNABORTED" THEN JStr("Request timeout")
    ELSE IF Truthy(failure.message) THEN failure.message
    ELSE JStr("Network error")

ClassifyFailure(failure) ==
    parseApiError(failure.status, failure.data,
                  IF failure.response THEN Undefined ELSE NetworkMessage(failure),
                  failure.retryAfter)

\* The retry test with <= for <.
RetryAllowed_OffByOne(retryCount, method, appError) ==
    /\ retryCount <= MAX_RETRIES
    /\ isRetryableMethod(method)
    /\ shouldRetry(appError)

\* retryCount < MAX_RETRIES && isRetryableMethod(config.method) && shouldRetry(appError)
RetryAllowed(retryCount, method, appError) ==
    /\ retryCount < MAX_RETRIES
    /\ isRetryableMethod(method)
    /\ shouldRetry(appError)

\* The response interceptor's rejected handler, for an error with config.
Rejected(failure) ==
    /\ request.phase = "sent"
    /\ LET retryCount == Coalesce(request.retryCount, JNum(0)).v
           appError == ClassifyFailure(failure)
       IN IF RetryAllowed(retryCount, request.method, appError)
          THEN request' = [request EXCEPT
                   !.phase = "delay",
                   !.failures = @ + 1,
                   !.retryCount = JNum(retryCount + 1),
                   !.delays = Append(@, RETRY_DELAY_MS * (retryCount + 1)),
                   !.error = appError]
          ELSE request' = [request EXCEPT
                   !.phase = "rejected",
                   !.failures = @ + 1,
                   !.error = appError,
                   !.reauth = IF shouldTriggerReauth(request.method, appError)
                              THEN InvokeHandler(@) ELSE @]
    /\ UNCHANGED <<onUnauthorized, inFlightVars, pureVars, playerVars, sessionVars>>

\* The delay has elapsed: return api.request(config).
Resend ==
    /\ request.phase = "delay"
    /\ request' = [request EXCEPT !.phase = "sent", !.attempts = @ + 1]
    /\ UNCHANGED <<onUnauthorized, inFlightVars, pureVars, playerVars, sessionVars>>

\* __resetInFlightRequestsForTests(): inFlightRequests.clear().  The requests
\* that were registered stay pending, and their finally callbacks stay
\* attached.
ResetInFlightRequests ==
    /\ UNCHANGED <<transportVars, pureVars, playerVars, sessionVars>>
    /\ \E k \in Keys : ledger[k] # NoEntry
    /\ ledger' = [k \in Keys |-> NoEntry]
    /\ UNCHANGED <<promises, calls, invoked, microtasks>>

NextInFlight ==
    \/ \E c \in Callers, k \in Keys : withInFlightKey(c, k)
    \/ \E c \in Callers : AwaitHandle(c)
    \/ RunFactory
    \/ \E p \in Callers, ok \in BOOLEAN : Settle(p, ok)
    \/ FinallyCleanup
    \/ Observe


(***************************************************************************)
(* Session provider (core/auth/AuthContext.tsx, core/auth/roleStorage.ts)   *)
(*                                                                         *)
(* An async operation of the provider runs up to its await in one action.   *)
(* The settlement of the awaited request is one more action: the response   *)
(* interceptor and then the operation's continuation, which are promise     *)
(* jobs of one task.  Calls of the operations may overlap.                  *)
(* setState(updater) is applied to the state at once.                       *)
(***************************************************************************)

\* role === 'admin' || role === 'visitor' ? role : null
normalizeRole(role) ==
    IF role \in {JStr("admin"), JStr("visitor")} THEN role ELSE JNull

\* A classification that ignores the body's statusCode.
loginFailureErrorCode_AlwaysUnauthenticated(body) == "UNAUTHENTICATED"

loginFailureErrorCode(body) ==
    IF Get(body, "statusCode") = JNum(429) THEN "RATE_LIMIT" ELSE "UNAUTHENTICATED"

\* r && r.success === true
isLoginSuccess(r) == Truthy(r) /\ Get(r, "success") = JBool(TRUE)

\* resolveStartupRole that keeps the probed role whenever login is required.
resolveStartupRole_IgnoresSession(loginRequired, hasValidSession, probeRole) ==
    IF ~loginRequired THEN JNull ELSE probeRole

resolveStartupRole(loginRequired, hasValidSession, probeRole) ==
    IF ~loginRequired THEN JNull
    ELSE IF hasValidSession THEN probeRole ELSE JNull

\* getRoleFromSettings that reads the three fields in the reverse order.
getRoleFromSettings_CurrentRoleFirst(settings) ==
    IF Nullish(settings) \/ ~IsObjectType(settings) THEN JNull
    ELSE Coalesce(Coalesce(normalizeRole(Get(settings, "currentRole")),
                           normalizeRole(Get(settings, "userRole"))),
                  normalizeRole(Get(settings, "role")))

getRoleFromSettings(settings) ==
    IF Nullish(settings) \/ ~IsObjectType(settings) THEN JNull
    ELSE Coalesce(Coalesce(normalizeRole(Get(settings, "role")),
                           normalizeRole(Get(settings, "userRole"))),
                  normalizeRole(Get(settings, "currentRole")))

\* roleStorage: store.value is the string under ROLE_KEY (Undefined when the
\* key is absent); store.throws tells whether the backend's calls throw.
getStoredRole(store) == normalizeRole(store.value)

\* The string left under ROLE_KEY by setStoredRole(role).
setStoredRole(role) == IF Nullish(role) THEN Undefined ELSE role

\* try { return getStoredRole() } catch { return null }
safeGetStoredRole(store) == IF store.throws THEN JNull ELSE getStoredRole(store)

\* try { setStoredRole(role) } catch {}: the store after the call.
safeSetStoredRole(store, role) ==
    [store EXCEPT !.value = IF store.throws THEN @ ELSE setStoredRole(role)]

\* useState's initial AuthState, for a role read from the store.
InitialAuthState(storedRole) ==
    [role |-> storedRole, hasValidSession |-> FALSE, loginRequired |-> FALSE,
     passwordEnabled |-> JNull, loading |-> TRUE, error |-> JNull,
     waitTimeMs |-> JNull]

\* Calls of the provider's operations that can be running at the same time.
Runs == {1, 2}

\* op: the operation running in the slot; pc: the request it is suspended
\* at ("idle" before the first call, "done" once it has returned);
\* passwordEnabled, probeRole: locals of refreshAuthConfig that live across
\* its second await; returned: what the last operation of the slot returned,
\* or "threw".
IdleRun ==
    [op |-> "none", pc |-> "idle", passwordEnabled |-> Undefined,
     probeRole |-> JNull, returned |-> Undefined]

Suspended(r) == runs[r].pc \notin {"idle", "done"}

\* The axios method of the request an operation is suspended at.
MethodOf(pc) ==
    IF pc \in {"getPasswordEnabled", "getSettings", "getSettings (fallback)"}
    THEN MethodText(<<"g", "e", "t">>)
    ELSE MethodText(<<"p", "o", "s", "t">>)

\* Requests issued through withInFlightKey: overlapping calls share one.
KeyedRequests ==
    {"verifyAdminPassword", "verifyVisitorPassword",
     "passkeysAuthenticateVerify", "logout"}

\* Bodies of 2xx responses of the endpoints the provider calls.
BodiesOf(pc) ==
    CASE pc = "getPasswordEnabled" ->
            {JNull,
             JObj([loginRequired |-> JBool(TRUE)]),
             JObj([loginRequired |-> JBool(FALSE), enabled |-> JBool(TRUE)]),
             JObj([enabled |-> JBool(TRUE)]),
             JObj([success |-> JBool(TRUE),
                   data |-> JObj([loginRequired |-> JBool(TRUE)])])}
      [] pc \in {"getSettings", "getSettings (fallback)"} ->
            {JObj([language |-> JStr("en")]),
             JObj([role |-> JStr("admin"), currentRole |-> JStr("visitor")]),
             JObj([role |-> JStr("owner"), userRole |-> JStr("visitor")]),
             JObj([currentRole |-> JStr("admin")]),
             JObj([success |-> JBool(TRUE),
                   data |-> JObj([role |-> JStr("visitor")])])}
      [] pc = "logout" -> {JObj([success |-> JBool(TRUE)])}
      [] OTHER ->
            {JObj([success |-> JBool(TRUE), role |-> JStr("admin")]),
             JObj([success |-> JBool(TRUE), role |-> JStr("visitor")]),
             JObj([success |-> JBool(FALSE), statusCode |-> JNum(429),
                   waitTime |-> JNum(120000),
                   message |-> JStr("Too many attempts")]),
             JObj([success |-> JBool(FALSE), statusCode |-> JNum(401)])}

\* Failures of those requests: 401 and 403 without a body, 429 with a wait
\* time, and a connection failure.
SessionFailures ==
    {f \in WireFailures :
        /\ f.retryAfter = Undefined
        /\ \/ ~f.response /\ f.code = "ERR_NETWORK" /\ f.message = JStr("Network Error")
           \/ f.response /\ f.status \in {401, 403} /\ f.data = Undefined
           \/ f.response /\ f.status = 429 /\ Get(f.data, "statusCode") = JNum(429)}

\* What the transport can answer to the request awaited at pc.
WireReplies(pc) ==
    {[response |-> TRUE, status |-> 200, data |-> b, code |-> "",
      message |-> JStr(""), retryAfter |-> Undefined] : b \in BodiesOf(pc)}
    \cup SessionFailures

\* The settled promise of apiGet / apiPost: unwrap(res.data), or the AppError
\* the response interceptor rejects with.
Outcome(wire) ==
    IF wire.status = 200 THEN [t |-> "resolved", v |-> unwrap(wire.data)]
    ELSE [t |-> "rejected", v |-> ClassifyFailure(wire)]


\* A callback that also resets the error and restarts the loading phase.
forceSignedOut_ResetsStartup(session) ==
    [state |-> [session.state EXCEPT !.role = JNull, !.hasValidSession = FALSE,
                                     !.error = JNull, !.loading = TRUE],
     storage |-> safeSetStoredRole(session.storage, JNull)]

\* A callback that signs the session out and leaves the role store alone.
forceSignedOut_KeepsStore(session) ==
    [state |-> [session.state EXCEPT !.role = JNull, !.hasValidSession = FALSE],
     storage |-> session.storage]

\* The callback the provider registers with setUnauthorizedHandler, applied
\* to a session (the AuthState and the role store).
forceSignedOut(session) ==
    [state |-> [session.state EXCEPT !.role = JNull, !.hasValidSession = FALSE],
     storage |-> safeSetStoredRole(session.storage, JNull)]

\* The session as the response interceptor leaves it when the request
\* awaited at pc settles: on a rejection it calls onUnauthorized?.() before
\* it rejects.
Intercepted(pc, outcome) ==
    IF /\ outcome.t = "rejected"
       /\ shouldTriggerReauth(MethodOf(pc), outcome.v)
       /\ onUnauthorized = "forceSignedOut"
    THEN forceSignedOut([state |-> state, storage |-> storage])
    ELSE [state |-> state, storage |-> storage]

\* Run r returns (or throws) value; so does every run awaiting the same
\* request through withInFlightKey, whose continuation repeats r's updates.
Finish(r, value) ==
    [q \in Runs |->
        IF q = r \/ (runs[r].pc \in KeyedRequests /\ runs[q].pc = runs[r].pc)
        THEN [IdleRun EXCEPT !.pc = "done", !.returned = value]
        ELSE runs[q]]

\* The provider's two mount effects, in declaration order: refreshAuthConfig()
\* up to its first await, then setUnauthorizedHandler(callback).
Mount ==
    /\ onUnauthorized = NoHandler
    /\ state' = [state EXCEPT !.loading = TRUE, !.error = JNull]
    /\ runs' = [runs EXCEPT ![1] = [IdleRun EXCEPT !.op = "refreshAuthConfig",
                                                   !.pc = "getPasswordEnabled"]]
    /\ onUnauthorized' = "forceSignedOut"
    /\ UNCHANGED <<storage, request, inFlightVars, pureVars, playerVars>>

\* A call of a provider operation takes the first slot that is not suspended.
FreeSlot(r) ==
    /\ onUnauthorized # NoHandler
    /\ ~Suspended(r)
    /\ \A q \in Runs : q < r => Suspended(q)

\* refreshAuthConfig() up to await getPasswordEnabled().
refreshAuthConfig(r) ==
    /\ FreeSlot(r)
    /\ state' = [state EXCEPT !.loading = TRUE, !.error = JNull]
    /\ runs' = [runs EXCEPT ![r] = [IdleRun EXCEPT !.op = "refreshAuthConfig",
                                                   !.pc = "getPasswordEnabled"]]
    /\ UNCHANGED <<storage, transportVars, inFlightVars, pureVars, playerVars>>

\* loginAsAdmin(password), loginAsVisitor(password) and
\* loginWithPasskey(credentialResponse, challenge) up to the await of their
\* verification request.
login(r, op) ==
    /\ FreeSlot(r)
    /\ state' = [state EXCEPT !.error = JNull, !.waitTimeMs = JNull]
    /\ runs' = [runs EXCEPT ![r] =
           [IdleRun EXCEPT
               !.op = op,
               !.pc = CASE op = "loginAsAdmin" -> "verifyAdminPassword"
                        [] op = "loginAsVisitor" -> "verifyVisitorPassword"
                        [] op = "loginWithPasskey" -> "passkeysAuthenticateVerify"]]
    /\ UNCHANGED <<storage, transportVars, inFlightVars, pureVars, playerVars>>

\* logout() up to await apiLogout().
logout(r) ==
    /\ FreeSlot(r)
    /\ runs' = [runs EXCEPT ![r] = [IdleRun EXCEPT !.op = "logout", !.pc = "logout"]]
    /\ UNCHANGED <<state, storage, transportVars, inFlightVars, pureVars, playerVars>>

clearError ==
    /\ onUnauthorized # NoHandler
    /\ state.error # JNull
    /\ state' = [state EXCEPT !.error = JNull]
    /\ UNCHANGED <<storage, runs, transportVars, inFlightVars, pureVars, playerVars>>

\* A request of a data screen is rejected and the response interceptor calls
\* the registered callback.
DataRequestRejected(method, failure) ==
    /\ onUnauthorized = "forceSignedOut"
    /\ UNCHANGED <<runs, transportVars, inFlightVars, pureVars, playerVars>>
    /\ state' = forceSignedOut([state |-> state, storage |-> storage]).state
    /\ storage' = forceSignedOut([state |-> state, storage |-> storage]).storage
    /\ shouldTriggerReauth(method, ClassifyFailure(failure))

\* refreshAuthConfig from the settlement of getPasswordEnabled() to the next
\* await or the return.  Reading passwordEnabled.loginRequired of null throws
\* and lands in the catch block like a rejection.
AfterPasswordEnabled(r, wire) ==
    /\ runs[r].pc = "getPasswordEnabled"
    /\ LET outcome == Outcome(wire)
           at == Intercepted(runs[r].pc, outcome)
           passwordEnabled == outcome.v
       IN IF outcome.t = "resolved" /\ ~Nullish(passwordEnabled)
          THEN LET loginRequired ==
                       Truthy(Coalesce(Coalesce(Get(passwordEnabled, "loginRequired"),
                                                Get(passwordEnabled, "enabled")),
                                       JBool(FALSE)))
                   hasValidSession == ~loginRequired
                   resolvedRole == resolveStartupRole(loginRequired, hasValidSession, JNull)
               IN IF loginRequired
                  THEN /\ runs' = [runs EXCEPT ![r] =
                              [@ EXCEPT !.pc = "getSettings",
                                        !.passwordEnabled = passwordEnabled,
                                        !.probeRole = safeGetStoredRole(storage)]]
                       /\ UNCHANGED <<state, storage>>
                  ELSE /\ storage' = safeSetStoredRole(storage, resolvedRole)
                       /\ state' = [state EXCEPT
                              !.passwordEnabled = passwordEnabled,
                              !.loginRequired = loginRequired,
                              !.hasValidSession = hasValidSession,
                              !.role = resolvedRole,
                              !.loading = FALSE,
                              !.error = JNull]
                       /\ runs' = Finish(r, Undefined)
          ELSE /\ runs' = [runs EXCEPT ![r] = [@ EXCEPT !.pc = "getSettings (fallback)"]]
               /\ state' = at.state
               /\ storage' = at.storage
    /\ UNCHANGED <<transportVars, inFlightVars, pureVars, playerVars>>

\* A login-required path that takes a FORBIDDEN failure of the settings probe
\* for a connectivity failure.
AfterSettings_ForbiddenIsConnectivity(r, wire) ==
    /\ runs[r].pc = "getSettings"
    /\ LET outcome == Outcome(wire)
           at == Intercepted(runs[r].pc, outcome)
           resolved == outcome.t = "resolved"
           authFailure ==
               ~resolved /\ outcome.v.code = "UNAUTHENTICATED"
           loginRequired == resolved \/ authFailure
           hasValidSession == resolved
           probeRole == IF resolved
                        THEN Coalesce(getRoleFromSettings(outcome.v), runs[r].probeRole)
                        ELSE runs[r].probeRole
           probeError == IF resolved \/ authFailure THEN JNull ELSE outcome.v
           resolvedRole == resolveStartupRole(loginRequired, hasValidSession, probeRole)
       IN /\ storage' = safeSetStoredRole(at.storage, resolvedRole)
          /\ state' = [at.state EXCEPT
                 !.passwordEnabled = runs[r].passwordEnabled,
                 !.loginRequired = loginRequired,
                 !.hasValidSession = hasValidSession,
                 !.role = resolvedRole,
                 !.loading = FALSE,
                 !.error = probeError]
          /\ runs' = Finish(r, Undefined)
    /\ UNCHANGED <<transportVars, inFlightVars, pureVars, playerVars>>

\* refreshAuthConfig, login required: from the settlement of getSettings() to
\* the return.
AfterSettings(r, wire) ==
    /\ runs[r].pc = "getSettings"
    /\ LET outcome == Outcome(wire)
           at == Intercepted(runs[r].pc, outcome)
           resolved == outcome.t = "resolved"
           authFailure ==
               ~resolved /\ outcome.v.code \in {"UNAUTHENTICATED", "FORBIDDEN"}
           loginRequired == resolved \/ authFailure
           hasValidSession == resolved
           probeRole == IF resolved
                        THEN Coalesce(getRoleFromSettings(outcome.v), runs[r].probeRole)
                        ELSE runs[r].probeRole
           probeError == IF resolved \/ authFailure THEN JNull ELSE outcome.v
           resolvedRole == resolveStartupRole(loginRequired, hasValidSession, probeRole)
       IN /\ storage' = safeSetStoredRole(at.storage, resolvedRole)
          /\ state' = [at.state EXCEPT
                 !.passwordEnabled = runs[r].passwordEnabled,
                 !.loginRequired = loginRequired,
                 !.hasValidSession = hasValidSession,
                 !.role = resolvedRole,
                 !.loading = FALSE,
                 !.error = probeError]
          /\ runs' = Finish(r, Undefined)
    /\ UNCHANGED <<transportVars, inFlightVars, pureVars, playerVars>>

\* A catch block that forces login on every failure of the fallback probe.
AfterFallbackSettings_AnyFailureForcesLogin(r, wire) ==
    /\ runs[r].pc = "getSettings (fallback)"
    /\ LET outcome == Outcome(wire)
           at == Intercepted(runs[r].pc, outcome)
           resolved == outcome.t = "resolved"
           resolvedRole == IF resolved THEN getRoleFromSettings(outcome.v) ELSE JNull
       IN /\ storage' = safeSetStoredRole(at.storage, resolvedRole)
          /\ state' = [at.state EXCEPT
                 !.role = resolvedRole,
                 !.hasValidSession = resolved,
                 !.loading = FALSE,
                 !.error = JNull,
                 !.loginRequired = ~resolved]
          /\ runs' = Finish(r, Undefined)
    /\ UNCHANGED <<transportVars, inFlightVars, pureVars, playerVars>>

\* A catch block whose role write is not guarded: a throwing store rejects
\* the run before its setState.
AfterFallbackSettings_StoreAborts(r, wire) ==
    /\ runs[r].pc = "getSettings (fallback)"
    /\ LET outcome == Outcome(wire)
           at == Intercepted(runs[r].pc, outcome)
           resolved == outcome.t = "resolved"
           authFailure ==
               ~resolved /\ outcome.v.code \in {"UNAUTHENTICATED", "FORBIDDEN"}
           resolvedRole == IF resolved THEN getRoleFromSettings(outcome.v) ELSE JNull
           startupError == IF resolved \/ authFailure THEN JNull ELSE outcome.v
       IN IF at.storage.throws
          THEN /\ storage' = at.storage
               /\ state' = at.state
               /\ runs' = Finish(r, JStr("threw"))
          ELSE /\ storage' = safeSetStoredRole(at.storage, resolvedRole)
               /\ state' = [at.state EXCEPT
                      !.role = resolvedRole,
                      !.hasValidSession = resolved,
                      !.loading = FALSE,
                      !.error = startupError,
                      !.loginRequired = authFailure]
               /\ runs' = Finish(r, Undefined)
    /\ UNCHANGED <<transportVars, inFlightVars, pureVars, playerVars>>

\* refreshAuthConfig, catch block: from the settlement of the fallback
\* getSettings() to the return.
AfterFallbackSettings(r, wire) ==
    /\ runs[r].pc = "getSettings (fallback)"
    /\ LET outcome == Outcome(wire)
           at == Intercepted(runs[r].pc, outcome)
           resolved == outcome.t = "resolved"
           authFailure ==
               ~resolved /\ outcome.v.code \in {"UNAUTHENTICATED", "FORBIDDEN"}
           resolvedRole == IF resolved THEN getRoleFromSettings(outcome.v) ELSE JNull
           startupError == IF resolved \/ authFailure THEN JNull ELSE outcome.v
       IN /\ storage' = safeSetStoredRole(at.storage, resolvedRole)
          /\ state' = [at.state EXCEPT
                 !.role = resolvedRole,
                 !.hasValidSession = resolved,
                 !.loading = FALSE,
                 !.error = startupError,
                 !.loginRequired = authFailure]
          /\ runs' = Finish(r, Undefined)
    /\ UNCHANGED <<transportVars, inFlightVars, pureVars, playerVars>>

\* What a login operation makes of the settlement of its verification
\* request: the session it leaves (at is the session the interceptor left)
\* and the value it returns.
LoginResult(at, op, outcome) ==
    LET res == outcome.v IN
    IF outcome.t = "resolved" /\ isLoginSuccess(res)
    THEN [storage |-> safeSetStoredRole(at.storage, Get(res, "role")),
          state |-> [at.state EXCEPT
                        !.role = Get(res, "role"),
                        !.hasValidSession = TRUE,
                        !.error = JNull,
                        !.waitTimeMs = JNull],
          returned |-> JBool(TRUE)]
    ELSE [storage |-> at.storage,
          state |->
              IF outcome.t = "resolved"
              THEN [at.state EXCEPT
                       !.waitTimeMs = Coalesce(Get(res, "waitTime"), JNull),
                       !.hasValidSession = FALSE,
                       !.error =
                           [code |-> loginFailureErrorCode(res),
                            message |->
                                Coalesce(Get(res, "message"),
                                         IF op = "loginWithPasskey"
                                         THEN JStr("Passkey login failed")
                                         ELSE JStr("Login failed")),
                            waitTimeMs |-> Get(res, "waitTime")]]
              ELSE [at.state EXCEPT
                       !.error = res,
                       !.hasValidSession = FALSE,
                       !.waitTimeMs = Coalesce(res.waitTimeMs, JNull)],
          returned |-> JBool(FALSE)]

\* A login operation from the settlement of its verification request to the
\* return.
AfterVerify(r, wire) ==
    /\ runs[r].pc \in {"verifyAdminPassword", "verifyVisitorPassword",
                       "passkeysAuthenticateVerify"}
    /\ LET outcome == Outcome(wire)
           result == LoginResult(Intercepted(runs[r].pc, outcome),
                                 runs[r].op, outcome)
       IN /\ storage' = result.storage
          /\ state' = result.state
          /\ runs' = Finish(r, result.returned)
    /\ UNCHANGED <<transportVars, inFlightVars, pureVars, playerVars>>


\* logout that signs out locally only when the remote call succeeded.
AfterLogout_OnlyOnSuccess(r, wire) ==
    /\ runs[r].pc = "logout"
    /\ LET outcome == Outcome(wire)
           at == Intercepted(runs[r].pc, outcome)
       IN /\ storage' = IF outcome.t = "rejected" THEN at.storage
                        ELSE safeSetStoredRole(at.storage, JNull)
          /\ state' = IF outcome.t = "rejected" THEN at.state
                      ELSE [at.state EXCEPT
                               !.role = JNull,
                               !.hasValidSession = FALSE,
                               !.error = JNull,
                               !.waitTimeMs = JNull]
          /\ runs' = Finish(r, IF outcome.t = "rejected" THEN JStr("threw")
                               ELSE Undefined)
    /\ UNCHANGED <<transportVars, inFlightVars, pureVars, playerVars>>

\* logout from the settlement of apiLogout() to the return: the finally
\* block runs on both outcomes; a rejection is then rethrown.
AfterLogout(r, wire) ==
    /\ runs[r].pc = "logout"
    /\ LET outcome == Outcome(wire)
           at == Intercepted(runs[r].pc, outcome)
       IN /\ storage' = safeSetStoredRole(at.storage, JNull)
          /\ state' = [at.state EXCEPT
                 !.role = JNull,
                 !.hasValidSession = FALSE,
                 !.error = JNull,
                 !.waitTimeMs = JNull]
          /\ runs' = Finish(r, IF outcome.t = "rejected" THEN JStr("threw")
                               ELSE Undefined)
    /\ UNCHANGED <<transportVars, inFlightVars, pureVars, playerVars>>

(***************************************************************************)
(* Properties of the in-flight ledger                                       *)
(***************************************************************************)

Called(c) == calls[c].status # "idle"

\* The operations of key k whose factory is scheduled or running.
PendingOn(k) ==
    {p \in Callers : promises[p].key = k /\ promises[p].state \in Pending}

\* The calls that were handed request p.
Holders(p) == {c \in Callers : Called(c) /\ calls[c].handle = p}

C2_OverlappingCallersShareOutcome ==
    /\ \A c \in Callers :
          Called(c) /\ calls[c].peer # 0 =>
              /\ calls[c].handle = calls[c].peer
              /\ invoked[c] = 0
              /\ invoked[calls[c].peer] <= 1
              /\ promises[calls[c].peer].state \in {"running"} \cup Settled
                    => invoked[calls[c].peer] = 1
    /\ \A c \in Callers :
          calls[c].status = "observed" =>
              LET first == IF calls[c].peer # 0 THEN calls[c].peer ELSE calls[c].handle
              IN /\ calls[c].seenKind = promises[first].state
                 /\ calls[c].seenKind \in Settled
                 /\ calls[c].seenValue = first
                 /\ invoked[first] = 1
    /\ \A c1, c2 \in Callers :
          /\ calls[c1].status = "observed"
          /\ calls[c2].status = "observed"
          /\ calls[c2].peer = calls[c1].handle
          => /\ calls[c1].seenKind = calls[c2].seenKind
             /\ calls[c1].seenValue = calls[c2].seenValue

\* Two callers with different factories overlapped and both observed the
\* failure of the first caller's factory.
C2_Witness ==
    \E c1, c2 \in Callers :
        /\ c1 # c2
        /\ calls[c2].peer = c1
        /\ calls[c1].status = "observed"
        /\ calls[c2].status = "observed"
        /\ calls[c2].seenKind = "rejected"
        /\ calls[c2].seenValue = c1

\* C3 as stated: an entry is removed exactly once when its operation settles,
\* and after the operation has settled the next call with the same key starts
\* a fresh execution: no call is ever handed an operation that has settled.
C3_FreshAfterSettle ==
    /\ \A p \in Callers : promises[p].removals <= 1
    /\ \A c \in Callers : Called(c) => calls[c].handleState \notin Settled

\* C3 (amended): an entry is removed exactly once, by the cleanup reaction
\* that is queued when its operation settles (fulfilled or rejected, however
\* many callers hold it); once that reaction has run the ledger no longer
\* holds the operation and no later call is handed it; until it has run the
\* reaction is in the job queue.
C3_FreshAfterCleanup ==
    /\ \A p \in Callers :
          /\ promises[p].removals <= 1
          /\ promises[p].removals = 1 <=> promises[p].cleaned
          /\ promises[p].cleaned => promises[p].state \in Settled
          /\ promises[p].cleaned => \A k \in Keys : ledger[k] # p
          /\ promises[p].state \in Settled /\ ~promises[p].cleaned =>
                 /\ ledger[promises[p].key] = p
                 /\ \E i \in DOMAIN microtasks :
                        microtasks[i] = [job |-> "finally", id |-> p]
          /\ promises[p].state \in Pending => ledger[promises[p].key] = p
    /\ \A c \in Callers : Called(c) => ~calls[c].handleCleaned

\* A rejected operation that two callers held was removed once, and the next
\* call with its key runs a fresh factory.
C3_Witness ==
    \E p, c \in Callers :
        /\ promises[p].state = "rejected"
        /\ promises[p].removals = 1
        /\ Cardinality(Holders(p)) = 2
        /\ c # p
        /\ calls[c].key = promises[p].key
        /\ calls[c].handle = c
        /\ promises[c].state = "running"
        /\ invoked[c] = 1

C25_RemovesOnlyItsOwnEntry ==
    [][FinallyCleanup =>
          LET p == Head(microtasks).id
              k == promises[p].key
          IN /\ promises[p].state \in Settled
             /\ ledger'[k] = IF ledger[k] = p THEN NoEntry ELSE ledger[k]
             /\ promises'[p].removals =
                    promises[p].removals + IF ledger[k] = p THEN 1 ELSE 0
             /\ \A j \in Keys \ {k} : ledger'[j] = ledger[j]]_vars

\* The cleanup of an operation that was cleared from the ledger has run and
\* removed nothing: the key still holds the pending operation that was
\* registered after the clear.
C25_Witness ==
    \E p, q \in Callers :
        /\ p < q
        /\ promises[p].key = promises[q].key
        /\ promises[p].cleaned
        /\ promises[p].removals = 0
        /\ promises[q].state \in Pending
        /\ ledger[promises[q].key] = q

\* The job that will run the factory of request p is in the microtask queue.
FactoryQueued(p) ==
    \E i \in DOMAIN microtasks : microtasks[i] = [job |-> "factory", id |-> p]

\* C18 (as stated): a call that finds no entry for its key has invoked its
\* factory by the time it returns.
C18_FactoryInvokedWithinCall ==
    \A c \in Callers :
        calls[c].status # "idle" /\ calls[c].found = NoEntry => invoked[c] >= 1

\* C18 (amended): a call that finds no entry for its key registers a new
\* handle under the key and returns it with the factory not yet invoked.
\* The factory is invoked once, by a microtask the call queued; until that
\* microtask runs the handle stays registered and the factory has not run.
C18_FactoryDeferred ==
    \A c \in Callers :
        calls[c].status # "idle" /\ calls[c].found = NoEntry =>
            /\ calls[c].handle = c
            /\ calls[c].handleState = "scheduled"
            /\ invoked[c] <= 1
            /\ IF promises[c].state = "scheduled"
               THEN /\ invoked[c] = 0
                    /\ ledger[calls[c].key] = c
                    /\ FactoryQueued(c)
               ELSE /\ invoked[c] = 1
                    /\ ~FactoryQueued(c)

\* A call has returned its newly registered handle and the factory has not
\* run yet.
C18_Witness ==
    \E c \in Callers :
        /\ calls[c].status = "holding"
        /\ calls[c].found = NoEntry
        /\ ledger[calls[c].key] = c
        /\ promises[c].state = "scheduled"
        /\ invoked[c] = 0


\* The method of the request a client function sends.
C17_Method(via) ==
    CASE via = "apiPost" -> POST
      [] via = "apiPut" -> PUT
      [] via = "apiPatch" -> PATCH
      [] via = "apiDelete" -> DELETE

\* The request of call p is pending at the transport.
AtTransport(p) == promises[p].state = "running"

\* Every write operation passes a key, built from the method of the client
\* function it goes through and from the url it sends.
C17_EveryWriteIsKeyed ==
    \A e \in WriteCalls :
        /\ e.inFlightKey # JNull
        /\ e.inFlightKey = buildInFlightKey(C17_Method(e.via), e.url)

\* C17: every write operation of the endpoint layer passes an in-flight key
\* built from the method and the target of its request, and its request is
\* sent through the guard: a request at the transport is the registered
\* entry of its key, so no two requests with the same key are at the
\* transport together.
C17_WritesAreGuarded ==
    /\ C17_EveryWriteIsKeyed
    /\ \A p \in Callers :
          AtTransport(p) =>
              /\ promises[p].key \in EndpointKeys
              /\ ledger[promises[p].key] = p
    /\ \A p, q \in Callers :
          p # q /\ AtTransport(p) /\ AtTransport(q) =>
              promises[p].key # promises[q].key

\* A write operation was called again while its request was at the
\* transport: the second call sent nothing and holds the first request.
C17_Witness ==
    \E c, d \in Callers :
        /\ c < d
        /\ AtTransport(c)
        /\ calls[d].status = "holding"
        /\ calls[d].key = promises[c].key
        /\ calls[d].handle = c
        /\ promises[d].state = "none"
        /\ invoked[d] = 0


\* The ledger keys of the deleteCollection calls for one collection, over
\* every value of the deleteVideos flag.
C22_DeletionKeys ==
    [id \in CollectionIds |->
        {KeyText(buildInFlightKey(DELETE,
                    <<"/", "collections", "/", id>> \o DeleteVideosQuery(flag))) :
            flag \in {Undefined, JBool(TRUE), JBool(FALSE)}}]

\* C22: the key of a deletion is built from its path alone, without the
\* query: overlapping deleteCollection calls for one collection that differ
\* only in the deleteVideos flag share one execution, so no two deletion
\* requests for the same collection are at the transport together.
C22_DeletionsShareOneExecution ==
    \A id \in CollectionIds : \A p, q \in Callers :
        p # q /\ AtTransport(p) /\ AtTransport(q) =>
            ~ /\ promises[p].key \in C22_DeletionKeys[id]
              /\ promises[q].key \in C22_DeletionKeys[id]


(***************************************************************************)
(* Properties of the transport client                                       *)
(***************************************************************************)

\* The retry count attached to the request config (0 while it is unset).
RetriesMade == IF request.retryCount = Undefined THEN 0 ELSE request.retryCount.v

\* C4: a request whose method is POST, PUT, PATCH or DELETE, or is missing,
\* blank or unknown, is never re-sent, whatever the failure class: at most
\* one wire attempt, no retry counter, no retry delay; a request that was
\* dispatched made exactly one attempt, and its first failure is final.
C4_WritesNeverResent ==
    request.method \in WriteMethodInputs \cup OtherMethodInputs =>
        /\ request.attempts <= 1
        /\ request.retryCount = Undefined
        /\ request.delays = <<>>
        /\ request.phase # "delay"
        /\ request.failures <= 1
        /\ request.phase \in {"sent", "resolved"} =>
              request.attempts = 1 /\ request.failures = 0
        /\ request.failures = 1 =>
              request.attempts = 1 /\ request.phase = "rejected"

\* A POST failed with a 5xx SERVER error, which shouldRetry accepts, after a
\* single wire attempt.
C4_Witness ==
    /\ request.method = MethodText(<<"P", "O", "S", "T">>)
    /\ request.phase = "rejected"
    /\ request.error.code = "SERVER"
    /\ request.error.httpStatus = JNum(503)
    /\ request.attempts = 1

\* C5: a GET, HEAD or OPTIONS request is re-sent only after a failure for
\* which shouldRetry is true and while fewer than 2 retries have been made:
\* at most 3 wire attempts; the retry counter equals the number of retries;
\* the wait before retry k is 1000 * k ms; the error of a request that
\* failed on the wire is surfaced only when no further retry is allowed.
C5_ReadRetryPolicy ==
    /\ request.attempts <= 3
    /\ RetriesMade = Len(request.delays)
    /\ request.delays \in {<<>>, <<1000>>, <<1000, 2000>>}
    /\ request.attempts >= 1 =>
          request.attempts =
              Len(request.delays) + (IF request.phase = "delay" THEN 0 ELSE 1)
    /\ request.failures <= request.attempts
    /\ request.phase = "delay" =>
          /\ request.method \in ReadMethodInputs
          /\ shouldRetry(request.error)
    /\ request.phase = "rejected" /\ request.failures >= 1 =>
          \/ request.method \notin ReadMethodInputs
          \/ ~shouldRetry(request.error)
          \/ RetriesMade = 2

\* A GET that failed three times with a NETWORK error: two retries, after
\* 1000 ms and 2000 ms, then the error is surfaced.
C5_Witness ==
    /\ request.method = MethodText(<<"g", "e", "t">>)
    /\ request.phase = "rejected"
    /\ request.error.code = "NETWORK"
    /\ request.attempts = 3
    /\ request.delays = <<1000, 2000>>

\* C6: the reauthentication callback slot is called only when the request
\* fails for good, and then if and only if the error is UNAUTHENTICATED, or
\* it is FORBIDDEN and the method is GET, HEAD or OPTIONS (the call reaches
\* the handler registered at that moment).
C6_ReauthPolicy ==
    /\ Len(request.reauth) <= 1
    /\ request.phase # "rejected" => request.reauth = <<>>
    /\ request.phase = "rejected" =>
          (Len(request.reauth) = 1 <=>
              \/ request.error.code = "UNAUTHENTICATED"
              \/ /\ request.error.code = "FORBIDDEN"
                 /\ request.method \in ReadMethodInputs)

\* The registered callback was called for a HEAD request that failed with
\* FORBIDDEN.
C6_Witness ==
    /\ request.phase = "rejected"
    /\ request.error.code = "FORBIDDEN"
    /\ request.method = MethodText(<<"h", "e", "a", "d">>)
    /\ request.reauth = <<"forceSignedOut">>

\* C33: once a reauthentication callback has been registered, the slot
\* keeps it: no later step changes the registered handler.
C33_HandlerSetOnce ==
    [][onUnauthorized # NoHandler => onUnauthorized' = onUnauthorized]_vars

\* C21: a response with a 2xx status whose body is {success: false,
\* statusCode: 401 or 429, ...} resolves the request with that body,
\* unchanged: no AppError is made of it, the request is not sent again and
\* the reauthentication callback is not called.
C21_FailureBodyResolves ==
    [][\A body \in SuccessBodies :
          Fulfilled(body) /\ Get(body, "success") = JBool(FALSE) =>
              /\ request'.phase = "resolved"
              /\ request'.result = body
              /\ request'.error = request.error
              /\ request'.attempts = request.attempts
              /\ request'.retryCount = request.retryCount
              /\ request'.reauth = request.reauth]_vars

\* A request has resolved with the body {success: false, statusCode: 401}
\* while a reauthentication callback was registered and was not called.
C21_Witness ==
    /\ request.phase = "resolved"
    /\ Get(request.result, "success") = JBool(FALSE)
    /\ Get(request.result, "statusCode") = JNum(401)
    /\ onUnauthorized # NoHandler
    /\ request.reauth = <<>>


(***************************************************************************)
(* Pure functions: inputs and applications                                  *)
(***************************************************************************)

Returned(value) == [t |-> "returned", v |-> value]

StatusInputs == {0, 200, 400, 401, 403, 404, 409, 418, 429, 499, 500, 503}

\* Every AppError shape: any code with any status, or with none.
AppErrorInputs ==
    {[code |-> c, httpStatus |-> h, message |-> JStr("m"),
      backendType |-> Undefined, recoverable |-> Undefined,
      waitTimeMs |-> Undefined, retryAfterMs |-> Undefined, raw |-> Undefined] :
        c \in AppErrorCode, h \in {Undefined} \cup {JNum(n) : n \in StatusInputs}}

ApplyShouldRetry ==
    /\ ret = Undefined
    /\ ret' = Returned(shouldRetry(arg))
    /\ UNCHANGED <<arg, inFlightVars, transportVars, sessionVars, playerVars>>

\* An object with the given fields; a field whose value is Undefined is absent.
ObjectOf(fields) ==
    JObj([k \in {f \in DOMAIN fields : fields[f] # Undefined} |-> fields[k]])

BodyInputs ==
    {Undefined, JNull, JStr("<html>")}
    \cup
    {ObjectOf([success |-> s, statusCode |-> sc, message |-> m, waitTime |-> w]) :
        s \in {Undefined, JBool(TRUE), JBool(FALSE), JStr("false")},
        sc \in {Undefined, JStr("429")} \cup {JNum(n) : n \in StatusInputs},
        m \in {Undefined, JStr("Too many attempts")},
        w \in {Undefined, JNum(120000)}}

NetworkMessageInputs == {Undefined, JStr(""), JStr("Request timeout")}

ParseInputs ==
    [httpStatus : StatusInputs, body : BodyInputs,
     networkMessage : NetworkMessageInputs, retryAfter : RetryAfterHeaders]

ApplyParseApiError ==
    /\ ret = Undefined
    /\ ret' = Returned(parseApiError(arg.httpStatus, arg.body,
                                     arg.networkMessage, arg.retryAfter))
    /\ UNCHANGED <<arg, inFlightVars, transportVars, sessionVars, playerVars>>

PayloadInputs ==
    {JNull, JBool(FALSE), JNum(0), JStr(""), JStr("ok"), JArr(<<>>),
     JArr(<<JObj([id |-> JStr("v1")])>>), JObj(<<>>),
     JObj([id |-> JStr("v2"), title |-> JStr("Video 2")]),
     JObj([success |-> JBool(TRUE), data |-> JNum(1)])}

\* Response values: bare payloads, and objects with any combination of a
\* success field, a data field and one more field.
RawInputs ==
    PayloadInputs
    \cup
    {ObjectOf([success |-> s, data |-> d, message |-> m]) :
        s \in {Undefined, JBool(TRUE), JBool(FALSE), JStr("true"), JNum(1), JNull},
        d \in {Undefined} \cup PayloadInputs,
        m \in {Undefined, JStr("done")}}

ApplyUnwrap ==
    /\ ret = Undefined
    /\ ret' = Returned(unwrap(arg))
    /\ UNCHANGED <<arg, inFlightVars, transportVars, sessionVars, playerVars>>


(***************************************************************************)
(* Properties of the classifier and the unwrapper                           *)
(***************************************************************************)

C8_NoRetryStatusesAlwaysWin ==
    /\ ret # Undefined
    /\ \/ arg.code = "RATE_LIMIT"
       \/ /\ arg.httpStatus # Undefined
          /\ arg.httpStatus.v \in {400, 401, 403, 404, 409, 429}
    => ret = Returned(FALSE)

\* The claim's status-to-code table.
C9_CodeOf(status) ==
    IF status = 401 THEN "UNAUTHENTICATED"
    ELSE IF status = 403 THEN "FORBIDDEN"
    ELSE IF status = 404 THEN "NOT_FOUND"
    ELSE IF status = 409 THEN "CONFLICT"
    ELSE IF status = 429 THEN "RATE_LIMIT"
    ELSE IF status = 400 THEN "VALIDATION"
    ELSE IF status >= 500 THEN "SERVER"
    ELSE "UNKNOWN"

\* C9: parseApiError returns NETWORK when there is no body and a network
\* message; otherwise httpStatus is the body's statusCode when the body has
\* success:false and a numeric statusCode, and the wire status when it has
\* not, and code is the value the table gives for that status; the code is
\* always one of the nine codes.
C9_ParseClassification ==
    ret # Undefined =>
        LET b == arg.body
            noBody == b \in {Undefined, JNull}
            hasNetworkMessage == arg.networkMessage \notin {Undefined, JStr("")}
            declared ==
                /\ b.t = "obj"
                /\ "success" \in DOMAIN b.v
                /\ b.v.success = JBool(FALSE)
                /\ "statusCode" \in DOMAIN b.v
                /\ b.v.statusCode.t = "num"
            effective == IF declared THEN b.v.statusCode.v ELSE arg.httpStatus
        IN /\ ret.v.code \in AppErrorCode
           /\ IF noBody /\ hasNetworkMessage
              THEN ret.v.code = "NETWORK"
              ELSE /\ ret.v.httpStatus = JNum(effective)
                   /\ ret.v.code = C9_CodeOf(effective)

\* A body {success:false, statusCode:429} delivered with wire status 200 was
\* classified RATE_LIMIT with httpStatus 429.
C9_Witness ==
    /\ ret # Undefined
    /\ arg.httpStatus = 200
    /\ Get(arg.body, "success") = JBool(FALSE)
    /\ Get(arg.body, "statusCode") = JNum(429)
    /\ ret.v.code = "RATE_LIMIT"
    /\ ret.v.httpStatus = JNum(429)

\* C10: unwrap returns raw.data exactly when raw is an object whose success
\* is the boolean true and which has a data key; every other value is
\* returned as it is.
C10_UnwrapRule ==
    ret # Undefined =>
        LET envelope ==
                /\ arg.t = "obj"
                /\ "success" \in DOMAIN arg.v
                /\ arg.v.success = JBool(TRUE)
                /\ "data" \in DOMAIN arg.v
        IN ret.v = IF envelope THEN arg.v.data ELSE arg

\* unwrap was applied to {success:true, message} without a data key and
\* returned it whole.
C10_Witness ==
    /\ arg = JObj([success |-> JBool(TRUE), message |-> JStr("done")])
    /\ ret = Returned(arg)

\* A {success:true, data} envelope, the one shape unwrap strips.
C11_IsEnvelope(x) ==
    /\ x.t = "obj"
    /\ "success" \in DOMAIN x.v
    /\ x.v.success = JBool(TRUE)
    /\ "data" \in DOMAIN x.v

\* C11 (as stated): unwrap is idempotent, unwrap(unwrap(x)) = unwrap(x) for
\* every response value x: bare payloads, {success:true, data:X} envelopes
\* around every payload X, and {success:false, ...} objects.
C11_UnwrapIdempotent ==
    ret # Undefined => unwrap(ret.v) = ret.v

\* C11 (amended): unwrap strips exactly one envelope layer.  A second
\* application changes nothing if and only if the first result is not itself
\* a {success:true, data} envelope; for an envelope around an envelope the
\* first application returns the inner envelope and the second its data.
C11_UnwrapStripsOneLayer ==
    ret # Undefined =>
        LET once == ret.v
            twice == unwrap(once)
        IN /\ C11_IsEnvelope(arg) => once = arg.v.data
           /\ ~C11_IsEnvelope(arg) => once = arg
           /\ (twice = once) <=> ~C11_IsEnvelope(once)
           /\ C11_IsEnvelope(once) => twice = once.v.data

\* unwrap was applied to an envelope whose data is itself an envelope and
\* returned the inner envelope.
C11_Witness ==
    /\ ret # Undefined
    /\ C11_IsEnvelope(arg)
    /\ C11_IsEnvelope(ret.v)
    /\ ret.v = arg.v.data

(***************************************************************************)
(* Properties of the session provider                                       *)
(*                                                                         *)
(* The role store is best effort (safeSetStoredRole swallows a throwing     *)
(* backend): what a property says of the persisted role is stated for a     *)
(* store whose calls succeed.                                               *)
(***************************************************************************)

\* Run r of refreshAuthConfig returns in this step.
RefreshReturns(r) ==
    /\ runs[r].pc \in {"getPasswordEnabled", "getSettings", "getSettings (fallback)"}
    /\ runs'[r].pc = "done"

\* C12: whenever refreshAuthConfig completes with loginRequired = false, the
\* resolved role is null in the session state and in the persisted role
\* cache, whatever role was cached before and on every startup path (the
\* login-required probe succeeding or failing).
C12_OpenAccessHasNoRole ==
    [][\A r \in Runs :
          RefreshReturns(r) /\ ~state'.loginRequired =>
              /\ state'.role = JNull
              /\ ~storage.throws => storage'.value = Undefined]_vars

\* C13: a login operation first clears error and waitTimeMs.  On a
\* {success:true, role} response it persists the role and sets role to it,
\* hasValidSession = true and error = null.  On a {success:false} response it
\* sets hasValidSession = false, error.code = RATE_LIMIT when statusCode is
\* 429 and UNAUTHENTICATED otherwise, and waitTimeMs to the body's waitTime
\* (null if absent).  On a rejection of the request it stores the thrown
\* AppError unchanged as error and returns false.
C13_LoginOutcomes ==
    [][/\ \A r \in Runs, op \in {"loginAsAdmin", "loginAsVisitor", "loginWithPasskey"} :
             login(r, op) => state'.error = JNull /\ state'.waitTimeMs = JNull
       /\ \A r \in Runs, wire \in WireReplies("verifyAdminPassword") :
             AfterVerify(r, wire) =>
                 LET body == wire.data
                 IN IF wire.status # 200
                    THEN /\ state'.error = ClassifyFailure(wire)
                         /\ runs'[r].returned = JBool(FALSE)
                    ELSE IF body.v.success = JBool(TRUE)
                    THEN /\ state'.role = body.v.role
                         /\ state'.hasValidSession
                         /\ state'.error = JNull
                         /\ ~storage.throws => storage'.value = body.v.role
                    ELSE /\ ~state'.hasValidSession
                         /\ state'.error.code =
                                IF /\ "statusCode" \in DOMAIN body.v
                                   /\ body.v.statusCode = JNum(429)
                                THEN "RATE_LIMIT" ELSE "UNAUTHENTICATED"
                         /\ state'.waitTimeMs =
                                IF "waitTime" \in DOMAIN body.v
                                THEN body.v.waitTime ELSE JNull]_vars

\* A login was answered {success:false, statusCode:429, waitTime:120000}: it
\* returned false and left a RATE_LIMIT error built from the body (it has no
\* httpStatus) and the wait time.
C13_Witness ==
    /\ \E r \in Runs : runs[r].returned = JBool(FALSE)
    /\ ~state.hasValidSession
    /\ state.error # JNull
    /\ DOMAIN state.error = {"code", "message", "waitTimeMs"}
    /\ state.error.code = "RATE_LIMIT"
    /\ state.waitTimeMs = JNum(120000)

\* C14: logout always ends with role = null, hasValidSession = false and the
\* persisted role cleared, whether the remote logout call succeeds or fails.
C14_LogoutAlwaysSignsOut ==
    [][\A r \in Runs, wire \in WireReplies("logout") :
          AfterLogout(r, wire) =>
              /\ state'.role = JNull
              /\ ~state'.hasValidSession
              /\ ~storage.throws => storage'.value = Undefined]_vars

\* A logout whose remote call failed has finished (it rethrew), and the
\* session is signed out with the persisted role gone.
C14_Witness ==
    /\ \E r \in Runs : runs[r].returned = JStr("threw")
    /\ \A r \in Runs : ~Suspended(r)
    /\ state.role = JNull
    /\ ~state.hasValidSession
    /\ ~storage.throws
    /\ storage.value = Undefined

\* C15: when the transport invokes the reauthentication callback, the
\* session is forced to role = null and hasValidSession = false and the
\* persisted role is cleared, in one step and without running the startup
\* probe; loginRequired, loading, error and waitTimeMs are left unchanged.
C15_ReauthFrame ==
    [][\A method \in {MethodText(<<"g", "e", "t">>), MethodText(<<"p", "o", "s", "t">>)},
          failure \in SessionFailures :
          DataRequestRejected(method, failure) =>
              /\ state'.role = JNull
              /\ ~state'.hasValidSession
              /\ ~storage.throws => storage'.value = Undefined
              /\ state'.loginRequired = state.loginRequired
              /\ state'.loading = state.loading
              /\ state'.error = state.error
              /\ state'.waitTimeMs = state.waitTimeMs
              /\ state'.passwordEnabled = state.passwordEnabled
              /\ runs' = runs]_vars

\* The session is signed out with the persisted role gone, while the login
\* wall, a login error and its wait time are still in place and no operation
\* of the provider is running.
C15_Witness ==
    /\ state.role = JNull
    /\ ~state.hasValidSession
    /\ storage = [value |-> Undefined, throws |-> FALSE]
    /\ state.loginRequired
    /\ ~state.loading
    /\ state.error # JNull
    /\ state.waitTimeMs = JNum(120000)
    /\ \A r \in Runs : ~Suspended(r)

\* The settlements that are a rejection classified FORBIDDEN.
C26_ForbiddenFailures ==
    {wire \in SessionFailures :
        Outcome(wire).t = "rejected" /\ Outcome(wire).v.code = "FORBIDDEN"}

\* C26 (as stated): during startup a FORBIDDEN failure of a probe clears the
\* login-required flag and surfaces the error.
C26_ForbiddenClearsLoginRequired ==
    [][\A r \in Runs, wire \in C26_ForbiddenFailures :
          AfterSettings(r, wire) \/ AfterFallbackSettings(r, wire)
          => /\ ~state'.loginRequired
             /\ state'.error = Outcome(wire).v]_vars

\* C26 (amended): during startup a FORBIDDEN failure of the settings probe,
\* on the login-required path and in the fallback alike, is treated as
\* login required: the run ends with loginRequired = true, hasValidSession =
\* false, role = null, loading = false and no error.  A FORBIDDEN failure of
\* the login-required query itself decides nothing: the run goes on to the
\* fallback settings probe and the flags and the error stay as they were.
C26_ForbiddenIsLoginRequired ==
    [][\A r \in Runs, wire \in C26_ForbiddenFailures :
          /\ AfterSettings(r, wire) \/ AfterFallbackSettings(r, wire) =>
                 /\ state'.loginRequired
                 /\ ~state'.hasValidSession
                 /\ state'.role = JNull
                 /\ ~state'.loading
                 /\ state'.error = JNull
                 /\ runs'[r].pc = "done"
          /\ AfterPasswordEnabled(r, wire) =>
                 /\ runs'[r].pc = "getSettings (fallback)"
                 /\ state'.loginRequired = state.loginRequired
                 /\ state'.loading = state.loading
                 /\ state'.error = state.error]_vars

\* A startup run on the login-required path has ended on an auth-class
\* failure of its settings probe: login is required, and no error is shown.
C26_Witness ==
    /\ ~state.loading
    /\ Truthy(Get(state.passwordEnabled, "loginRequired"))
    /\ state.loginRequired
    /\ ~state.hasValidSession
    /\ state.error = JNull
    /\ \E r \in Runs : runs[r].pc = "done" /\ runs[r].returned = Undefined
    /\ \A r \in Runs : ~Suspended(r)

\* Run r is a refreshAuthConfig call that has not returned.
RefreshInFlight(r) == runs[r].op = "refreshAuthConfig" /\ Suspended(r)

\* C24: loading is true whenever at least one refreshAuthConfig run is in
\* flight, also when runs overlap.
C24_LoadingWhileRefreshing ==
    (\E r \in Runs : RefreshInFlight(r)) => state.loading

\* C27: every refreshAuthConfig run ends, provided each of its probes
\* settles, and the step that ends it leaves loading = false and returns
\* normally, on every path and also when the role store throws on every
\* read and write.
C27_RefreshEnds ==
    /\ \A r \in Runs : RefreshInFlight(r) ~> ~RefreshInFlight(r)
    /\ [][\A r \in Runs :
              RefreshInFlight(r) /\ runs'[r].pc = "done" =>
                  /\ ~state'.loading
                  /\ runs'[r].returned = Undefined]_vars

\* With a store that throws, a startup run has ended: it resolved the role
\* admin, which the store does not hold.
C27_Witness ==
    /\ storage.throws
    /\ storage.value # JStr("admin")
    /\ ~state.loading
    /\ state.hasValidSession
    /\ state.role = JStr("admin")
    /\ \A r \in Runs : ~Suspended(r)
    /\ \E r \in Runs : runs[r].pc = "done" /\ runs[r].returned = Undefined

\* C23: in every session state in which no startup refresh is running
\* (loading = false), hasValidSession = false implies role = null.
C23_NoRoleWithoutSession ==
    ~state.loading /\ ~state.hasValidSession => state.role = JNull

\* C34: slot 1 holds the mount run and slot 2 a run started while the mount
\* run was in flight, so the run of slot 2 is the most recently started one.
\* When it has returned and the mount run returns after it, the session
\* stays as the run of slot 2 left it.
C34_LatestStartedRunWins ==
    [][/\ RefreshInFlight(1)
       /\ runs[2].pc = "done"
       /\ runs'[1].pc = "done"
       => /\ state'.role = state.role
          /\ state'.hasValidSession = state.hasValidSession
          /\ state'.loginRequired = state.loginRequired
          /\ state'.error = state.error]_vars

\* C36: a session that has finished loading, requires login and is valid
\* has the role admin or visitor.
C36_ValidSessionHasRole ==
    ~state.loading /\ state.loginRequired /\ state.hasValidSession =>
        state.role \in {JStr("admin"), JStr("visitor")}

\* C29: whenever no operation of the provider is suspended at an await and
\* the role store works, the role the store returns is the role of the
\* AuthState.
C29_StoredRoleIsSessionRole ==
    ~storage.throws /\ (\A r \in Runs : ~Suspended(r)) =>
        getStoredRole(storage) = state.role

\* An operation has returned true on a working store, nothing is in
\* flight, and the session is a visitor's.
C29_Witness ==
    /\ ~storage.throws
    /\ \A r \in Runs : ~Suspended(r)
    /\ \E r \in Runs : runs[r].pc = "done" /\ runs[r].returned = JBool(TRUE)
    /\ state.hasValidSession
    /\ state.role = JStr("visitor")
    /\ getStoredRole(storage) = JStr("visitor")

\* The role a settings payload carries: the first of its fields role,
\* userRole, currentRole whose value is admin or visitor, null when none is.
PayloadRole(payload) ==
    LET valid(field) ==
            /\ payload.t = "obj"
            /\ field \in DOMAIN payload.v
            /\ payload.v[field] \in {JStr("admin"), JStr("visitor")}
    IN IF valid("role") THEN payload.v.role
       ELSE IF valid("userRole") THEN payload.v.userRole
       ELSE IF valid("currentRole") THEN payload.v.currentRole
       ELSE JNull

\* C19: if the login-required probe fails during refreshAuthConfig, the
\* settings resource is probed as a fallback.  Success: hasValidSession =
\* true, the role is the one derived from that payload and no error is kept.
\* An UNAUTHENTICATED or FORBIDDEN failure of the fallback: loginRequired =
\* true.  Any other failure: the error is surfaced in the session state and
\* loginRequired = false.
C19_FallbackProbe ==
    [][\A r \in Runs, wire \in WireReplies("getSettings (fallback)") :
          AfterFallbackSettings(r, wire) =>
              IF wire.status = 200
              THEN /\ state'.hasValidSession
                   /\ state'.role = PayloadRole(Outcome(wire).v)
                   /\ state'.error = JNull
              ELSE IF wire.status \in {401, 403}
              THEN state'.loginRequired
              ELSE /\ state'.error = ClassifyFailure(wire)
                   /\ ~state'.loginRequired]_vars

\* A refreshAuthConfig run has returned through the fallback (no
\* passwordEnabled payload was ever stored) with a valid session, the
\* payload's role and no error.
C19_Witness ==
    /\ ~state.loading
    /\ state.passwordEnabled = JNull
    /\ state.hasValidSession
    /\ state.role = JStr("visitor")
    /\ state.error = JNull
    /\ \A r \in Runs : ~Suspended(r)

\* C20: when the login-required probe reports that login is required, the
\* settings probe decides the session.  Success: hasValidSession = true with
\* the role taken from the payload (fields role, userRole, currentRole, in
\* that order) and otherwise from the cached role hint.  An UNAUTHENTICATED
\* or FORBIDDEN failure: hasValidSession = false, role = null and
\* loginRequired stays true.  Any other failure: loginRequired = false,
\* role = null and the error is surfaced.
C20_SettingsProbe ==
    [][\A r \in Runs, wire \in WireReplies("getSettings") :
          AfterSettings(r, wire) =>
              IF wire.status = 200
              THEN /\ state'.hasValidSession
                   /\ state'.role =
                          IF PayloadRole(Outcome(wire).v) # JNull
                          THEN PayloadRole(Outcome(wire).v)
                          ELSE runs[r].probeRole
              ELSE IF wire.status \in {401, 403}
              THEN /\ ~state'.hasValidSession
                   /\ state'.role = JNull
                   /\ state'.loginRequired
              ELSE /\ ~state'.loginRequired
                   /\ state'.role = JNull
                   /\ state'.error = ClassifyFailure(wire)]_vars

\* A refreshAuthConfig run whose probe answered {enabled:true} has returned
\* with the login wall up, a valid session and a role.
C20_Witness ==
    /\ ~state.loading
    /\ state.passwordEnabled = JObj([enabled |-> JBool(TRUE)])
    /\ state.loginRequired
    /\ state.hasValidSession
    /\ state.role = JStr("visitor")
    /\ \A r \in Runs : ~Suspended(r)

(***************************************************************************)
(* Lifecycle-aware polling (features/downloads/screens/DownloadsScreen.tsx, *)
(* features/subscriptions/screens/SubscriptionsScreen.tsx,                  *)
(* core/utils/polling.ts)                                                   *)
(*                                                                          *)
(* The four polled queries are "status" and "history" of the downloads      *)
(* screen, "tasks" and "subscriptions" of the subscriptions screen.  arg    *)
(* holds what the callbacks of a query read: the application state, the     *)
(* focus flag, the error and the data of the query; for "history" the data  *)
(* is that of the status query, which hasQueueWork is computed from.        *)
(***************************************************************************)

\* shouldStopPolling that stops on UNAUTHENTICATED only.
shouldStopPolling_OnlyUnauthenticated(error) ==
    error # JNull /\ error.code = "UNAUTHENTICATED"

shouldStopPolling(error) ==
    error # JNull /\ error.code \in {"UNAUTHENTICATED", "FORBIDDEN"}

shouldRetryPollingError(error) ==
    error = JNull \/ error.code \in {"NETWORK", "SERVER"}

\* Math.random() is a choice of the factor 0.8 + Math.random() * 0.4, in
\* percent: any value from 80 up to, and not including, 120.
JitterPercents == {80, 93, 100, 119}

Max(a, b) == IF a >= b THEN a ELSE b

\* Math.round of the non-negative quotient a / b
RoundDiv(a, b) == (2 * a + b) \div (2 * b)

\* The jittered interval without its floor of one second.
getJitteredIntervalMs_NoFloor(baseMs, percent) ==
    JNum(RoundDiv(baseMs * percent, 100))

getJitteredIntervalMs(baseMs, percent) ==
    JNum(Max(1000, RoundDiv(baseMs * percent, 100)))

\* value.key?.length ?? 0
LengthOf(value, key) ==
    IF Get(value, key).t = "arr" THEN Len(Get(value, key).v) ELSE 0

normalizeTaskStatus(status) ==
    IF status \in {JStr("active"), JStr("paused"), JStr("completed"),
                   JStr("cancelled")}
    THEN status.v ELSE "unknown"

\* tasks.some(task => status is 'active' or 'paused'), tasks being data ?? []
hasLiveTask(data) ==
    /\ data.t = "arr"
    /\ \E i \in DOMAIN data.v :
          normalizeTaskStatus(Get(data.v[i], "status")) \in {"active", "paused"}

\* appState === 'active' && isFocused
canPoll(screen) == screen.appState = "active" /\ screen.isFocused

\* The refetchInterval callback of a query; percent is the jitter drawn
\* should the callback reach getJitteredIntervalMs.
refetchInterval(screen, percent) ==
    IF ~canPoll(screen) THEN JBool(FALSE)
    ELSE IF shouldStopPolling(screen.error) THEN JBool(FALSE)
    ELSE IF screen.error # JNull /\ screen.error.code = "RATE_LIMIT"
    THEN IF IsNumber(screen.error.retryAfterMs)
         THEN JNum(Max(1000, screen.error.retryAfterMs.v))
         ELSE getJitteredIntervalMs(60000, percent)
    ELSE LET hasQueueWork == \/ LengthOf(screen.data, "activeDownloads") > 0
                             \/ LengthOf(screen.data, "queuedDownloads") > 0
         IN CASE screen.query = "status" ->
                   IF hasQueueWork
                   THEN getJitteredIntervalMs(2000, percent) ELSE JBool(FALSE)
              [] screen.query = "history" ->
                   IF hasQueueWork
                   THEN getJitteredIntervalMs(5000, percent)
                   ELSE getJitteredIntervalMs(30000, percent)
              [] screen.query = "tasks" ->
                   IF hasLiveTask(screen.data)
                   THEN getJitteredIntervalMs(10000, percent)
                   ELSE getJitteredIntervalMs(60000, percent)
              [] screen.query = "subscriptions" ->
                   getJitteredIntervalMs(30000, percent)

\* The retry callback of a query, called with the error of a failed fetch.
retry(screen, failureCount) ==
    IF ~canPoll(screen) THEN FALSE
    ELSE IF \/ shouldStopPolling(screen.error)
            \/ screen.error.code = "RATE_LIMIT"
            \/ ~shouldRetryPollingError(screen.error)
    THEN FALSE
    ELSE failureCount < 5

\* The errors of a query: every code, with and without a retry-after hint.
PollErrors ==
    {JNull} \cup
    {[code |-> c, httpStatus |-> Undefined, message |-> JStr("m"),
      backendType |-> Undefined, recoverable |-> Undefined,
      waitTimeMs |-> Undefined, retryAfterMs |-> h, raw |-> Undefined] :
        c \in AppErrorCode,
        h \in {Undefined, JNum(0), JNum(999), JNum(1000), JNum(120000)}}

\* The data of a query: none yet, a download status, or a list of tasks.
PollData(query) ==
    IF query \in {"status", "history"}
    THEN {Undefined, JObj(<<>>),
          JObj([activeDownloads |-> JArr(<<>>), queuedDownloads |-> JArr(<<>>)]),
          JObj([activeDownloads |-> JArr(<<JObj([id |-> JStr("d1")])>>),
                queuedDownloads |-> JArr(<<>>)]),
          JObj([queuedDownloads |-> JArr(<<JObj([id |-> JStr("d2")])>>)])}
    ELSE {Undefined, JArr(<<>>),
          JArr(<<JObj([status |-> JStr("completed")])>>),
          JArr(<<JObj([status |-> JStr("cancelled")]),
                 JObj([status |-> JStr("paused")])>>),
          JArr(<<JObj([status |-> JStr("active")])>>),
          JArr(<<JObj([status |-> JStr("failed")]), JObj(<<>>)>>)}

ApplyRefetchInterval ==
    /\ ret = Undefined
    /\ \E percent \in JitterPercents :
          ret' = Returned([fn |-> "refetchInterval",
                           v |-> refetchInterval(arg, percent)])
    /\ UNCHANGED <<arg, inFlightVars, transportVars, sessionVars, playerVars>>

ApplyRetry ==
    /\ ret = Undefined
    /\ arg.error # JNull
    /\ \E failureCount \in 0..6 :
          ret' = Returned([fn |-> "retry",
                           v |-> JBool(retry(arg, failureCount))])
    /\ UNCHANGED <<arg, inFlightVars, transportVars, sessionVars, playerVars>>


\* The base intervals getJitteredIntervalMs is applied to: every base up to
\* 1500 ms, and the bases the screens use.
BaseInputs == (1 .. 1500) \cup {2000, 5000, 10000, 30000, 60000}

\* getJitteredIntervalMs(arg) with any factor from 0.80 to 1.19, in steps of
\* one percent.
ApplyGetJitteredIntervalMs ==
    /\ ret = Undefined
    /\ \E percent \in 80 .. 119 :
          ret' = Returned([fn |-> "getJitteredIntervalMs", percent |-> percent,
                           v |-> getJitteredIntervalMs(arg, percent)])
    /\ UNCHANGED <<arg, inFlightVars, transportVars, sessionVars, playerVars>>

BACKOFF_STEPS_MS == <<2000, 5000, 10000, 20000, 60000>>

Min(a, b) == IF a <= b THEN a ELSE b

RECURSIVE PowerOfTwo(_)
PowerOfTwo(n) == IF n <= 0 THEN 1 ELSE 2 * PowerOfTwo(n - 1)

\* A delay that doubles with every attempt, capped at the last step.
getPollingRetryDelayMs_Exponential(attempt) ==
    Min(60000, 2000 * PowerOfTwo(attempt))

\* BACKOFF_STEPS_MS[index] indexes from 0, the sequence from 1.
getPollingRetryDelayMs(attempt) ==
    LET index == Max(0, Min(Len(BACKOFF_STEPS_MS) - 1, attempt))
    IN BACKOFF_STEPS_MS[index + 1]

\* The attempts getPollingRetryDelayMs is applied to: inside the table, below
\* it, above it and far above it.
AttemptInputs == (-2 .. 7) \cup {99}

ApplyGetPollingRetryDelayMs ==
    /\ ret = Undefined
    /\ \E attempt \in AttemptInputs :
          ret' = Returned([fn |-> "getPollingRetryDelayMs", attempt |-> attempt,
                           v |-> JNum(getPollingRetryDelayMs(attempt))])
    /\ UNCHANGED <<arg, inFlightVars, transportVars, sessionVars, playerVars>>

\* A fetch of the query fails.  The query library counts the failures of a
\* fetch from 0 and, at each failure, calls retryDelay(failureCount, error)
\* and retry(failureCount, error) with the same count: on true it waits the
\* delay and fetches again, on false it gives up.  The error is the one of
\* this failure, and the screen may have lost or gained the focus or the
\* foreground since the fetch began.  ret holds the last decision.
FetchFails ==
    /\ IF ret = Undefined THEN TRUE
       ELSE ret.v.fn = "retryer" /\ ret.v.v = JBool(TRUE)
    /\ \E error \in PollErrors \ {JNull},
          appState \in {"active", "background", "inactive"},
          isFocused \in BOOLEAN :
          LET screen == [arg EXCEPT !.error = error, !.appState = appState,
                                    !.isFocused = isFocused]
              failureCount == IF ret = Undefined THEN 0
                              ELSE ret.v.failureCount + 1
          IN /\ arg' = screen
             /\ ret' = Returned([fn |-> "retryer",
                                 failureCount |-> failureCount,
                                 delay |-> JNum(getPollingRetryDelayMs(failureCount)),
                                 v |-> JBool(retry(screen, failureCount))])
    /\ UNCHANGED <<inFlightVars, transportVars, sessionVars, playerVars>>


(***************************************************************************)
(* Properties of the polling callbacks                                      *)
(***************************************************************************)

\* The interval lies within 20 percent of the base, and is at least 1000 ms.
C16_Around(interval, baseMs) ==
    /\ IsNumber(interval)
    /\ interval.v >= 1000
    /\ 10 * interval.v >= 8 * baseMs
    /\ 10 * interval.v <= 12 * baseMs

\* The step a query's payload asks for: the base of the next interval, or 0
\* for no refetch.
C16_PayloadBase(screen) ==
    LET work == \E f \in {"activeDownloads", "queuedDownloads"} :
                    /\ HasKey(screen.data, f)
                    /\ screen.data.v[f].v # <<>>
        live == /\ screen.data.t = "arr"
                /\ \E i \in DOMAIN screen.data.v :
                      Get(screen.data.v[i], "status") \in
                          {JStr("active"), JStr("paused")}
    IN CASE screen.query = "status" -> IF work THEN 2000 ELSE 0
         [] screen.query = "history" -> IF work THEN 5000 ELSE 30000
         [] screen.query = "tasks" -> IF live THEN 10000 ELSE 60000
         [] screen.query = "subscriptions" -> 30000

C32_WithinTwentyPercent ==
    ret # Undefined =>
        /\ ret.v.v.v >= 1000
        /\ 10 * ret.v.v.v >= 8 * arg
        /\ 10 * ret.v.v.v <= 12 * arg

\* C32 (amended): every jittered interval of a base B is a whole number of
\* milliseconds that is at least 1000 and lies within half a millisecond of
\* [0.8 B, 1.2 B], unless that range lies below the floor, in which case it
\* is 1000.
C32_WithinTwentyPercentOrFloor ==
    ret # Undefined =>
        LET v == ret.v.v.v IN
        /\ v >= 1000
        /\ 10 * v >= 8 * arg - 5
        /\ v = 1000 \/ 10 * v <= 12 * arg + 5
        /\ 10 * 1000 > 12 * arg + 5 => v = 1000

\* A base of 100 ms was jittered to the floor of 1000 ms.
C32_Witness ==
    /\ ret # Undefined
    /\ arg = 100
    /\ ret.v.v = JNum(1000)

\* The delay the step table 2 s, 5 s, 10 s, 20 s, 60 s gives to an attempt,
\* an attempt below the table taking its first step and an attempt above it
\* its last.
C30_TableDelay(attempt) ==
    CASE attempt <= 0 -> 2000
      [] attempt = 1 -> 5000
      [] attempt = 2 -> 10000
      [] attempt = 3 -> 20000
      [] OTHER -> 60000

\* C30: a failed fetch is retried only when the screen is focused and in
\* the foreground, the error is a NETWORK or SERVER error and fewer than 5
\* failures came before, so a fetch is retried at most 5 times; the delay
\* before the retry that follows failure n is the n-th step of the table
\* 2 s, 5 s, 10 s, 20 s, 60 s, and getPollingRetryDelayMs clamps every attempt
\* outside the table to its ends.
C30_PollingRetries ==
    ret # Undefined =>
        /\ ret.v.fn = "retryer" =>
               /\ ret.v.failureCount <= 5
               /\ ret.v.delay = JNum(C30_TableDelay(ret.v.failureCount))
               /\ ret.v.v = JBool(TRUE) =>
                      /\ canPoll(arg)
                      /\ arg.error.code \in {"NETWORK", "SERVER"}
                      /\ ret.v.failureCount < 5
        /\ ret.v.fn = "getPollingRetryDelayMs" =>
               ret.v.v = JNum(C30_TableDelay(ret.v.attempt))

\* The fifth retry of a fetch has been granted, after a SERVER error on an
\* eligible screen, with a delay of 60 s.
C30_Witness ==
    /\ ret # Undefined
    /\ ret.v.fn = "retryer"
    /\ ret.v.failureCount = 4
    /\ ret.v.v = JBool(TRUE)
    /\ ret.v.delay = JNum(60000)
    /\ arg.error.code = "SERVER"

(***************************************************************************)
(* Startup role (core/auth/AuthContext)                                     *)
(***************************************************************************)

\* resolveStartupRole applied as refreshAuthConfig applies it: the probed
\* role is the role of the settings payload or, failing that, the stored
\* role.
ApplyResolveStartupRole ==
    /\ ret = Undefined
    /\ LET probeRole == Coalesce(getRoleFromSettings(arg.settings), arg.storedRole)
       IN ret' = Returned([fn |-> "resolveStartupRole", probeRole |-> probeRole,
                           v |-> resolveStartupRole(arg.loginRequired,
                                                    arg.hasValidSession,
                                                    probeRole)])
    /\ UNCHANGED <<arg, inFlightVars, transportVars, sessionVars, playerVars>>

\* C37: resolveStartupRole returns the probed role when login is required
\* and the session is valid, and null in every other case, whether the
\* probed role is admin, visitor or null.
C37_StartupRole ==
    ret # Undefined =>
        /\ ret.v.probeRole \in {JStr("admin"), JStr("visitor"), JNull}
        /\ ret.v.v = IF arg.loginRequired /\ arg.hasValidSession
                     THEN ret.v.probeRole ELSE JNull

\* A probed admin role was dropped because the session is not valid.
C37_Witness ==
    /\ ret # Undefined
    /\ arg.loginRequired
    /\ ~arg.hasValidSession
    /\ ret.v.probeRole = JStr("admin")
    /\ ret.v.v = JNull

(***************************************************************************)
(* Overlapping logins: loginAsAdmin of the provider over the in-flight      *)
(* ledger (core/auth, core/api/endpoints, core/api/inFlight.ts)             *)
(*                                                                          *)
(* Call c is loginAsAdmin(arg[c]).  Its requestFactory closes over its own  *)
(* password, so the request the factory of call p sends carries arg[p].     *)
(***************************************************************************)

\* The passwords the calls are made with: the server accepts "right".
Passwords == {"right", "wrong"}

\* The ledger key verifyAdminPassword passes to apiPost.
VerifyAdminKey ==
    KeyText(buildInFlightKey(POST, <<"/", "settings", "/", "verify-admin-password">>))

\* The AuthState of a startup that found the login required and no session.
LoginScreenState ==
    [InitialAuthState(JNull) EXCEPT
        !.loading = FALSE,
        !.loginRequired = TRUE,
        !.passwordEnabled = JObj([loginRequired |-> JBool(TRUE)])]

\* The body the server answers a verification request with.
VerifyReply(password) ==
    IF password = "right"
    THEN JObj([success |-> JBool(TRUE), role |-> JStr("admin")])
    ELSE JObj([success |-> JBool(FALSE), statusCode |-> JNum(401)])

\* A request that never reached the server.
ConnectionLost ==
    [response |-> FALSE, status |-> 0, data |-> Undefined, code |-> "ERR_NETWORK",
     message |-> JStr("Network Error"), retryAfter |-> Undefined]

\* What the settled request p hands to the callers awaiting it: the reply
\* to the password its factory sent, or the AppError of the lost connection.
VerifyOutcome(p) ==
    IF promises[p].state = "fulfilled"
    THEN Outcome([response |-> TRUE, status |-> 200,
                  data |-> VerifyReply(arg[promises[p].value]), code |-> "",
                  message |-> JStr(""), retryAfter |-> Undefined])
    ELSE Outcome(ConnectionLost)

\* loginAsAdmin whose verification request never goes through the ledger's
\* lookup: every call sends its own request.
loginAsAdmin_OwnRequest(c) ==
    /\ calls[c].status = "idle"
    /\ \A b \in Callers : b < c => calls[b].status # "idle"
    /\ state' = [state EXCEPT !.error = JNull, !.waitTimeMs = JNull]
    /\ promises' = [promises EXCEPT ![c] =
           [state |-> "scheduled", key |-> VerifyAdminKey, value |-> 0,
            waiters |-> <<c>>, cleaned |-> FALSE, removals |-> 0]]
    /\ ledger' = [ledger EXCEPT ![VerifyAdminKey] = c]
    /\ microtasks' = Append(microtasks, [job |-> "factory", id |-> c])
    /\ calls' = [calls EXCEPT ![c] =
           [CallRecord(VerifyAdminKey, c, ledger[VerifyAdminKey])
               EXCEPT !.status = "awaiting"]]
    /\ UNCHANGED <<invoked, storage, runs, transportVars, pureVars, playerVars>>

\* loginAsAdmin(arg[c]) up to its await: the state reset, then
\* verifyAdminPassword -> apiPost -> withInFlightKey, all within the call,
\* and the await of the handle it is given.
loginAsAdmin(c) ==
    /\ calls[c].status = "idle"
    /\ \A b \in Callers : b < c => calls[b].status # "idle"
    /\ state' = [state EXCEPT !.error = JNull, !.waitTimeMs = JNull]
    /\ LET existing == ledger[VerifyAdminKey] IN
       IF existing # NoEntry
       THEN \* if (existing) return existing
            /\ calls' = [calls EXCEPT ![c] =
                   [CallRecord(VerifyAdminKey, existing, existing)
                       EXCEPT !.status = "awaiting"]]
            /\ IF promises[existing].state \in Settled
               THEN /\ microtasks' =
                           Append(microtasks, [job |-> "reaction", id |-> c])
                    /\ UNCHANGED promises
               ELSE /\ promises' =
                           [promises EXCEPT ![existing].waiters = Append(@, c)]
                    /\ UNCHANGED microtasks
            /\ UNCHANGED <<ledger, invoked>>
       ELSE /\ promises' = [promises EXCEPT ![c] =
                   [state |-> "scheduled", key |-> VerifyAdminKey, value |-> 0,
                    waiters |-> <<c>>, cleaned |-> FALSE, removals |-> 0]]
            /\ ledger' = [ledger EXCEPT ![VerifyAdminKey] = c]
            /\ microtasks' = Append(microtasks, [job |-> "factory", id |-> c])
            /\ calls' = [calls EXCEPT ![c] =
                   [CallRecord(VerifyAdminKey, c, NoEntry)
                       EXCEPT !.status = "awaiting"]]
            /\ UNCHANGED invoked
    /\ UNCHANGED <<storage, runs, transportVars, pureVars, playerVars>>

\* The continuation of a loginAsAdmin call: it applies the outcome of the
\* request it awaited to the session.
AfterVerifyAdminPassword ==
    /\ microtasks # <<>>
    /\ Head(microtasks).job = "reaction"
    /\ LET c == Head(microtasks).id
           p == calls[c].handle
           result == LoginResult([state |-> state, storage |-> storage],
                                 "loginAsAdmin", VerifyOutcome(p))
       IN /\ calls' = [calls EXCEPT ![c].status = "observed",
                                    ![c].seenKind = promises[p].state,
                                    ![c].seenValue = promises[p].value]
          /\ state' = result.state
          /\ storage' = result.storage
    /\ microtasks' = Tail(microtasks)
    /\ UNCHANGED <<ledger, promises, invoked, runs, transportVars, pureVars, playerVars>>

\* C28: a loginAsAdmin call that finds a verification request registered
\* sends none of its own and awaits the registered one, which is sent once
\* with the password of the call that registered it; every call's
\* continuation applies the outcome of the request it awaited, so the
\* session it leaves is decided by that password and never by its own.
C28_OneRequestFirstPassword ==
    /\ [](\A c \in Callers :
              calls[c].found # NoEntry =>
                  /\ invoked[c] = 0
                  /\ calls[c].handle = calls[c].found
                  /\ invoked[calls[c].handle] <= 1
                  /\ calls[c].status = "observed" =>
                         /\ invoked[calls[c].handle] = 1
                         /\ calls[c].seenValue = calls[c].handle)
    /\ [][\A c \in Callers :
              calls[c].status # "observed" /\ calls'[c].status = "observed" =>
                  LET p == calls[c].handle IN
                  /\ state'.hasValidSession =
                         (promises[p].state = "fulfilled" /\ arg[p] = "right")
                  /\ state'.hasValidSession => state'.role = JStr("admin")
                  /\ promises[p].state = "rejected" =>
                         state'.error.code = "NETWORK"]_vars

\* Two overlapping logins, the first with the right password and the second
\* with a wrong one, have both returned: one request was sent and the
\* session is signed in.
C28_Witness ==
    /\ arg[1] = "right"
    /\ arg[2] = "wrong"
    /\ calls[1].status = "observed"
    /\ calls[2].status = "observed"
    /\ calls[2].found = 1
    /\ invoked[1] = 1
    /\ invoked[2] = 0
    /\ state.hasValidSession
    /\ state.role = JStr("admin")

(***************************************************************************)
(* Progress writer of the video screen                                      *)
(* (features/player/screens/VideoDetailScreen.tsx)                          *)
(*                                                                          *)
(* The n-th position the player reports is n; the end of the video reports  *)
(* 0.  player.reported is the last position reported (null before the       *)
(* first), player.sent the positions handed to putVideoProgress so far,     *)
(* player.writes the calls of flushProgress suspended at their await, and   *)
(* player.leaving whether a forced flush has been requested: the screen is  *)
(* then on its way out and reports no further position.                     *)
(***************************************************************************)

\* Number of positions the player reports before the video ends.
MaxReports == 3

\* The refs after loadVideo: lastProgressWriteAtRef is 0, so a write interval
\* has elapsed.  intervalElapsed is
\* now - lastProgressWriteAtRef.current >= PROGRESS_WRITE_INTERVAL_MS.
InitialPlayer ==
    [canWrite |-> TRUE, pendingProgress |-> JNull, progressInFlight |-> FALSE,
     intervalElapsed |-> TRUE, writes |-> <<>>, sent |-> {},
     reported |-> JNull, leaving |-> FALSE]

\* flushProgress(force) up to its await, applied to the refs.
flushProgress(p, force) ==
    IF ~p.canWrite THEN p
    ELSE IF p.progressInFlight THEN p
    ELSE IF p.pendingProgress = JNull THEN p
    ELSE IF ~force /\ ~p.intervalElapsed THEN p
    ELSE [p EXCEPT !.progressInFlight = TRUE,
                   !.pendingProgress = JNull,
                   !.writes = Append(@, [nextProgress |-> p.pendingProgress,
                                         force |-> force]),
                   !.sent = @ \cup {p.pendingProgress.v}]

\* handleProgress(seconds) applied to the refs.
Reported(p, seconds) ==
    LET shown == [p EXCEPT !.reported = JNum(seconds)] IN
    IF ~p.canWrite THEN shown
    ELSE LET pending == [shown EXCEPT !.pendingProgress = JNum(seconds)] IN
         IF pending.intervalElapsed THEN flushProgress(pending, FALSE)
         ELSE pending

\* The player reports its next position (handleVideoProgressEvent).
handleProgress ==
    /\ ~player.leaving
    /\ player.reported # JNum(0)
    /\ IF player.reported = JNull THEN TRUE ELSE player.reported.v < MaxReports
    /\ player' = Reported(player, IF player.reported = JNull THEN 1
                                  ELSE player.reported.v + 1)
    /\ UNCHANGED <<inFlightVars, transportVars, pureVars, sessionVars>>

\* handleVideoEnd: handleProgress(0), pendingProgressRef.current = 0, and a
\* forced flush.
handleVideoEnd ==
    /\ ~player.leaving
    /\ player.reported # JNum(0)
    /\ player' = [flushProgress([Reported(player, 0) EXCEPT
                                    !.pendingProgress = JNum(0)], TRUE)
                     EXCEPT !.leaving = TRUE]
    /\ UNCHANGED <<inFlightVars, transportVars, pureVars, sessionVars>>

\* flushProgressWrite(true), as the AppState listener (the application leaves
\* the foreground), handleBackPress and the cleanup of the effect call it.
flushProgressWrite ==
    /\ player' = [flushProgress(player, TRUE) EXCEPT !.leaving = TRUE]
    /\ player' # player
    /\ UNCHANGED <<inFlightVars, transportVars, pureVars, sessionVars>>

\* More than PROGRESS_WRITE_INTERVAL_MS has passed since the last write.
IntervalElapses ==
    /\ ~player.intervalElapsed
    /\ player' = [player EXCEPT !.intervalElapsed = TRUE]
    /\ UNCHANGED <<inFlightVars, transportVars, pureVars, sessionVars>>

\* catch { pendingProgressRef.current = nextProgress }
WriteFailed(p, write) == [p EXCEPT !.pendingProgress = write.nextProgress]

\* flushProgress from the settlement of putVideoProgress to its end: the try
\* or the catch block, then the finally block, which flushes again when this
\* call was forced and another position is pending.
AfterPutVideoProgress(ok) ==
    /\ player.writes # <<>>
    /\ LET write == Head(player.writes)
           rest == [player EXCEPT !.writes = Tail(@)]
           settled == IF ok THEN [rest EXCEPT !.intervalElapsed = FALSE]
                      ELSE WriteFailed(rest, write)
           released == [settled EXCEPT !.progressInFlight = FALSE]
       IN player' = IF /\ write.force
                       /\ released.pendingProgress # JNull
                       /\ released.pendingProgress # write.nextProgress
                    THEN flushProgress(released, TRUE)
                    ELSE released
    /\ UNCHANGED <<inFlightVars, transportVars, pureVars, sessionVars>>

(***************************************************************************)
(* Properties of the progress writer                                        *)
(***************************************************************************)

\* C35: whenever a position is pending it is the last position the player
\* reported, and at most one write is in flight.
C35_PendingIsLatestReported ==
    /\ player.pendingProgress # JNull =>
           player.pendingProgress = player.reported
    /\ Len(player.writes) <= 1

\* C39: once a forced flush has been requested on a screen that may write
\* and has a position to write, the last position reported is eventually
\* handed to putVideoProgress.
C39_ForcedFlushDelivers ==
    (player.leaving /\ player.canWrite /\ player.reported # JNull)
        ~> (player.reported # JNull /\ player.reported.v \in player.sent)

(***************************************************************************)
(* Specifications                                                           *)
(***************************************************************************)

\* The in-flight ledger under every interleaving of calls, awaits,
\* settlements and promise jobs.
Init ==
    /\ ledger = [k \in Keys |-> NoEntry]
    /\ promises = [p \in Callers |-> NoPromise]
    /\ calls = [c \in Callers |-> NoCall]
    /\ invoked = [c \in Callers |-> 0]
    /\ microtasks = <<>>
    /\ request = IdleRequest
    /\ onUnauthorized = NoHandler
    /\ arg = Undefined
    /\ ret = Undefined
    /\ state = InitialAuthState(JNull)
    /\ storage = [value |-> Undefined, throws |-> FALSE]
    /\ runs = [r \in Runs |-> IdleRun]
    /\ player = InitialPlayer

Spec == Init /\ [][NextInFlight]_vars

\* One request through the transport client.
NextTransport ==
    \/ \E handler \in Handlers : setUnauthorizedHandler(handler)
    \/ \E method \in MethodInputs : Dispatch(method)
    \/ \E method \in MethodInputs, message \in {JStr(""), JStr("circular structure")} :
           RejectedWithoutConfig(method, message)
    \/ \E body \in SuccessBodies : Fulfilled(body)
    \/ \E failure \in WireFailures : Rejected(failure)
    \/ Resend

SpecTransport == Init /\ [][NextTransport]_vars

\* shouldRetry applied to an arbitrary AppError.
InitRetry ==
    /\ ledger = [k \in Keys |-> NoEntry]
    /\ promises = [p \in Callers |-> NoPromise]
    /\ calls = [c \in Callers |-> NoCall]
    /\ invoked = [c \in Callers |-> 0]
    /\ microtasks = <<>>
    /\ request = IdleRequest
    /\ onUnauthorized = NoHandler
    /\ arg \in AppErrorInputs
    /\ ret = Undefined
    /\ state = InitialAuthState(JNull)
    /\ storage = [value |-> Undefined, throws |-> FALSE]
    /\ runs = [r \in Runs |-> IdleRun]
    /\ player = InitialPlayer

SpecRetry == InitRetry /\ [][ApplyShouldRetry]_vars

\* parseApiError applied to a wire status, a body and a network message.
InitParse ==
    /\ ledger = [k \in Keys |-> NoEntry]
    /\ promises = [p \in Callers |-> NoPromise]
    /\ calls = [c \in Callers |-> NoCall]
    /\ invoked = [c \in Callers |-> 0]
    /\ microtasks = <<>>
    /\ request = IdleRequest
    /\ onUnauthorized = NoHandler
    /\ arg \in ParseInputs
    /\ ret = Undefined
    /\ state = InitialAuthState(JNull)
    /\ storage = [value |-> Undefined, throws |-> FALSE]
    /\ runs = [r \in Runs |-> IdleRun]
    /\ player = InitialPlayer

SpecParse == InitParse /\ [][ApplyParseApiError]_vars

\* unwrap applied to a response value.
InitUnwrap ==
    /\ ledger = [k \in Keys |-> NoEntry]
    /\ promises = [p \in Callers |-> NoPromise]
    /\ calls = [c \in Callers |-> NoCall]
    /\ invoked = [c \in Callers |-> 0]
    /\ microtasks = <<>>
    /\ request = IdleRequest
    /\ onUnauthorized = NoHandler
    /\ arg \in RawInputs
    /\ ret = Undefined
    /\ state = InitialAuthState(JNull)
    /\ storage = [value |-> Undefined, throws |-> FALSE]
    /\ runs = [r \in Runs |-> IdleRun]
    /\ player = InitialPlayer

SpecUnwrap == InitUnwrap /\ [][ApplyUnwrap]_vars

\* The session provider from its mount on, under every interleaving of
\* operation calls, responses and continuations.
InitSession ==
    /\ ledger = [k \in Keys |-> NoEntry]
    /\ promises = [p \in Callers |-> NoPromise]
    /\ calls = [c \in Callers |-> NoCall]
    /\ invoked = [c \in Callers |-> 0]
    /\ microtasks = <<>>
    /\ request = IdleRequest
    /\ onUnauthorized = NoHandler
    /\ arg = Undefined
    /\ ret = Undefined
    /\ storage \in {[value |-> v, throws |-> t] :
                       v \in {Undefined, JStr("admin"), JStr("visitor")},
                       t \in BOOLEAN}
    /\ state = InitialAuthState(safeGetStoredRole(storage))
    /\ runs = [r \in Runs |-> IdleRun]
    /\ player = InitialPlayer

NextSession ==
    \/ Mount
    \/ \E r \in Runs : refreshAuthConfig(r)
    \/ \E r \in Runs, op \in {"loginAsAdmin", "loginAsVisitor", "loginWithPasskey"} :
           login(r, op)
    \/ \E r \in Runs : logout(r)
    \/ clearError
    \/ \E method \in {MethodText(<<"g", "e", "t">>), MethodText(<<"p", "o", "s", "t">>)},
          failure \in SessionFailures : DataRequestRejected(method, failure)
    \/ \E r \in Runs, wire \in WireReplies("getPasswordEnabled") :
           AfterPasswordEnabled(r, wire)
    \/ \E r \in Runs, wire \in WireReplies("getSettings") : AfterSettings(r, wire)
    \/ \E r \in Runs, wire \in WireReplies("getSettings (fallback)") :
           AfterFallbackSettings(r, wire)
    \/ \E r \in Runs, wire \in WireReplies("verifyAdminPassword") :
           AfterVerify(r, wire)
    \/ \E r \in Runs, wire \in WireReplies("logout") : AfterLogout(r, wire)

SpecSession == InitSession /\ [][NextSession]_vars

\* The startup of the provider: the mount run, the runs "Retry startup"
\* adds while the loading screen is shown, and the reauthentication callback.
NextStartup ==
    \/ Mount
    \/ \E r \in Runs : refreshAuthConfig(r)
    \/ \E method \in {MethodText(<<"g", "e", "t">>), MethodText(<<"p", "o", "s", "t">>)},
          failure \in SessionFailures : DataRequestRejected(method, failure)
    \/ \E r \in Runs, wire \in WireReplies("getPasswordEnabled") :
           AfterPasswordEnabled(r, wire)
    \/ \E r \in Runs, wire \in WireReplies("getSettings") : AfterSettings(r, wire)
    \/ \E r \in Runs, wire \in WireReplies("getSettings (fallback)") :
           AfterFallbackSettings(r, wire)

\* Each probe of a startup run settles: the request a run awaits is answered
\* or fails in the end.
ProbesSettle ==
    \A r \in Runs :
        /\ WF_vars(\E wire \in WireReplies("getPasswordEnabled") :
                      AfterPasswordEnabled(r, wire))
        /\ WF_vars(\E wire \in WireReplies("getSettings") :
                      AfterSettings(r, wire))
        /\ WF_vars(\E wire \in WireReplies("getSettings (fallback)") :
                      AfterFallbackSettings(r, wire))

SpecStartupLive == InitSession /\ [][NextStartup]_vars /\ ProbesSettle

\* The mount run of refreshAuthConfig and the runs "Retry startup" starts
\* while it is in flight: slot 1 is taken by the mount run only.
NextOverlap ==
    \/ Mount
    \/ refreshAuthConfig(2)
    \/ \E r \in Runs, wire \in WireReplies("getPasswordEnabled") :
           AfterPasswordEnabled(r, wire)
    \/ \E r \in Runs, wire \in WireReplies("getSettings") : AfterSettings(r, wire)
    \/ \E r \in Runs, wire \in WireReplies("getSettings (fallback)") :
           AfterFallbackSettings(r, wire)

SpecOverlap == InitSession /\ [][NextOverlap]_vars

\* The callbacks of a polled query applied to a screen state.
InitPolling ==
    /\ ledger = [k \in Keys |-> NoEntry]
    /\ promises = [p \in Callers |-> NoPromise]
    /\ calls = [c \in Callers |-> NoCall]
    /\ invoked = [c \in Callers |-> 0]
    /\ microtasks = <<>>
    /\ request = IdleRequest
    /\ onUnauthorized = NoHandler
    /\ \E query \in {"status", "history", "tasks", "subscriptions"} :
          arg \in [query : {query},
                   appState : {"active", "background", "inactive"},
                   isFocused : BOOLEAN,
                   error : PollErrors,
                   data : PollData(query)]
    /\ ret = Undefined
    /\ state = InitialAuthState(JNull)
    /\ storage = [value |-> Undefined, throws |-> FALSE]
    /\ runs = [r \in Runs |-> IdleRun]
    /\ player = InitialPlayer

NextPolling ==
    \/ ApplyRefetchInterval
    \/ ApplyRetry

SpecPolling == InitPolling /\ [][NextPolling]_vars

\* resolveStartupRole applied to every login requirement, session validity,
\* settings payload and stored role.
InitStartupRole ==
    /\ ledger = [k \in Keys |-> NoEntry]
    /\ promises = [p \in Callers |-> NoPromise]
    /\ calls = [c \in Callers |-> NoCall]
    /\ invoked = [c \in Callers |-> 0]
    /\ microtasks = <<>>
    /\ request = IdleRequest
    /\ onUnauthorized = NoHandler
    /\ arg \in [loginRequired : BOOLEAN,
                 hasValidSession : BOOLEAN,
                 settings : {unwrap(b) : b \in BodiesOf("getSettings")},
                 storedRole : {JNull, JStr("admin"), JStr("visitor")}]
    /\ ret = Undefined
    /\ state = InitialAuthState(JNull)
    /\ storage = [value |-> Undefined, throws |-> FALSE]
    /\ runs = [r \in Runs |-> IdleRun]
    /\ player = InitialPlayer

SpecStartupRole == InitStartupRole /\ [][ApplyResolveStartupRole]_vars

\* getJitteredIntervalMs applied to a base interval.
InitJitter ==
    /\ ledger = [k \in Keys |-> NoEntry]
    /\ promises = [p \in Callers |-> NoPromise]
    /\ calls = [c \in Callers |-> NoCall]
    /\ invoked = [c \in Callers |-> 0]
    /\ microtasks = <<>>
    /\ request = IdleRequest
    /\ onUnauthorized = NoHandler
    /\ arg \in BaseInputs
    /\ ret = Undefined
    /\ state = InitialAuthState(JNull)
    /\ storage = [value |-> Undefined, throws |-> FALSE]
    /\ runs = [r \in Runs |-> IdleRun]
    /\ player = InitialPlayer

SpecJitter == InitJitter /\ [][ApplyGetJitteredIntervalMs]_vars

\* The retries of a polled query: every sequence of failures of one fetch,
\* each with its own error and screen eligibility, and getPollingRetryDelayMs
\* applied to an arbitrary attempt.
InitRetryer ==
    /\ ledger = [k \in Keys |-> NoEntry]
    /\ promises = [p \in Callers |-> NoPromise]
    /\ calls = [c \in Callers |-> NoCall]
    /\ invoked = [c \in Callers |-> 0]
    /\ microtasks = <<>>
    /\ request = IdleRequest
    /\ onUnauthorized = NoHandler
    /\ arg \in [query : {"status", "history", "tasks", "subscriptions"},
                 appState : {"active", "background", "inactive"},
                 isFocused : BOOLEAN,
                 error : {JNull},
                 data : {Undefined}]
    /\ ret = Undefined
    /\ state = InitialAuthState(JNull)
    /\ storage = [value |-> Undefined, throws |-> FALSE]
    /\ runs = [r \in Runs |-> IdleRun]
    /\ player = InitialPlayer

NextRetryer ==
    \/ FetchFails
    \/ ApplyGetPollingRetryDelayMs

SpecRetryer == InitRetryer /\ [][NextRetryer]_vars

\* The write operations of the endpoint layer, called in any order and
\* overlapping in any way.  What a caller does with the handle it is given
\* acts neither on the ledger nor on the transport: callers do not await.
InitEndpoints ==
    /\ ledger = [k \in EndpointKeys |-> NoEntry]
    /\ promises = [p \in Callers |-> NoPromise]
    /\ calls = [c \in Callers |-> NoCall]
    /\ invoked = [c \in Callers |-> 0]
    /\ microtasks = <<>>
    /\ request = IdleRequest
    /\ onUnauthorized = NoHandler
    /\ arg = Undefined
    /\ ret = Undefined
    /\ state = InitialAuthState(JNull)
    /\ storage = [value |-> Undefined, throws |-> FALSE]
    /\ runs = [r \in Runs |-> IdleRun]
    /\ player = InitialPlayer

NextEndpoints ==
    \/ \E c \in Callers, e \in WriteCalls : apiWrite(c, e)
    \/ RunFactory
    \/ \E p \in Callers, ok \in BOOLEAN : Settle(p, ok)
    \/ FinallyCleanup

SpecEndpoints == InitEndpoints /\ [][NextEndpoints]_vars

\* The ledger with its test-only clear.  Callers do not await: what a caller
\* does with its handle does not act on the ledger.
NextReset ==
    \/ \E c \in Callers, k \in Keys : withInFlightKey(c, k)
    \/ RunFactory
    \/ \E p \in Callers, ok \in BOOLEAN : Settle(p, ok)
    \/ FinallyCleanup
    \/ ResetInFlightRequests

SpecReset == Init /\ [][NextReset]_vars

\* Overlapping loginAsAdmin calls on a session that finished its startup
\* signed out, under every interleaving of calls, settlements and promise
\* jobs.
InitLogin ==
    /\ ledger = [k \in {VerifyAdminKey} |-> NoEntry]
    /\ promises = [p \in Callers |-> NoPromise]
    /\ calls = [c \in Callers |-> NoCall]
    /\ invoked = [c \in Callers |-> 0]
    /\ microtasks = <<>>
    /\ request = IdleRequest
    /\ onUnauthorized = "forceSignedOut"
    /\ arg \in [Callers -> Passwords]
    /\ ret = Undefined
    /\ storage \in {[value |-> Undefined, throws |-> t] : t \in BOOLEAN}
    /\ state = LoginScreenState
    /\ runs = [r \in Runs |-> IdleRun]
    /\ player = InitialPlayer

NextLogin ==
    \/ \E c \in Callers : loginAsAdmin(c)
    \/ RunFactory
    \/ \E p \in Callers, ok \in BOOLEAN : Settle(p, ok)
    \/ FinallyCleanup
    \/ AfterVerifyAdminPassword

SpecLogin == InitLogin /\ [][NextLogin]_vars

\* The progress writer of one mounted video screen: positions reported,
\* forced flushes, the passing of the write interval and the settlement of
\* the writes, in any order.
InitPlayer ==
    /\ ledger = [k \in Keys |-> NoEntry]
    /\ promises = [p \in Callers |-> NoPromise]
    /\ calls = [c \in Callers |-> NoCall]
    /\ invoked = [c \in Callers |-> 0]
    /\ microtasks = <<>>
    /\ request = IdleRequest
    /\ onUnauthorized = NoHandler
    /\ arg = Undefined
    /\ ret = Undefined
    /\ state = InitialAuthState(JNull)
    /\ storage = [value |-> Undefined, throws |-> FALSE]
    /\ runs = [r \in Runs |-> IdleRun]
    /\ player \in {[InitialPlayer EXCEPT !.canWrite = w] : w \in BOOLEAN}

NextPlayer ==
    \/ handleProgress
    \/ handleVideoEnd
    \/ flushProgressWrite
    \/ IntervalElapses
    \/ \E ok \in BOOLEAN : AfterPutVideoProgress(ok)

SpecPlayer == InitPlayer /\ [][NextPlayer]_vars

\* Every write of the progress writer eventually settles.
WritesSettle == WF_vars(\E ok \in BOOLEAN : AfterPutVideoProgress(ok))

SpecPlayerLive == InitPlayer /\ [][NextPlayer]_vars /\ WritesSettle


(***************************************************************************)
(* Ledger keys over a bounded alphabet (core/api/inFlight.ts)               *)
(***************************************************************************)

\* The longest target a key is built from.
MaxTargetLen == 4

\* The characters of a target: the slash, the two marks of a URL, a blank,
\* a letter, and the scheme prefix of an absolute URL.
TargetSymbols == {"/", "?", "#", " ", "a", "http:"}

TargetInputs == UNION {[1 .. n -> TargetSymbols] : n \in 0 .. MaxTargetLen}

KeyMethodInputs == {<<"g", "e", "t">>, <<" ", "P", "o", "s", "t", " ">>}

ApplyBuildInFlightKey ==
    /\ ret = Undefined
    /\ ret' = Returned([fn |-> "buildInFlightKey",
                        target |-> normalizeTarget(arg.target),
                        v |-> buildInFlightKey(arg.method, arg.target)])
    /\ UNCHANGED <<arg, inFlightVars, transportVars, sessionVars, playerVars>>

\* The target is an absolute URL as normalizeTarget tells one.
IsAbsoluteTarget(target) == StartsWithScheme(Trim(target))

\* What follows the first "?" of a text.
QueryStringOf(text) == Drop(text, SpanLen(text, {"?"}) + 1)

\* The target with the slash at position i written twice.
RepeatSlash(target, i) == SubSeq(target, 1, i) \o <<"/">> \o Drop(target, i)

\* C38: the key is the upper-cased, trimmed method, a space and the
\* normalized target; targets that differ only in surrounding whitespace, a
\* trailing slash, a missing leading slash or a repeated slash of the path
\* have the same normalized target; the root stays "/"; a relative target
\* gets a leading slash; the query string is kept verbatim; and normalizing
\* a normalized target changes nothing.
C38_KeyNormalForm ==
    ret # Undefined =>
        LET target == arg.target
            trimmed == Trim(target)
            normalized == ret.v.target
        IN /\ ret.v.v = ToUpperCase(Trim(arg.method)) \o <<" ">> \o normalized
           /\ normalizeTarget(<<" ">> \o target \o <<" ">>) = normalized
           /\ "?" \notin {target[i] : i \in DOMAIN target}
                  => normalizeTarget(target \o <<"/">>) = normalized
           /\ ~IsAbsoluteTarget(target) /\ ~IsAbsoluteTarget(<<"/">> \o trimmed)
                  => normalizeTarget(<<"/">> \o trimmed) = normalized
           /\ \A i \in 1 .. SpanLen(target, {"?", "#"}) :
                  /\ target[i] = "/"
                  /\ IsAbsoluteTarget(target) = IsAbsoluteTarget(RepeatSlash(target, i))
                  /\ IsAbsoluteTarget(target) => i > SpanLen(target, {"http:"}) + 3
                  => normalizeTarget(RepeatSlash(target, i)) = normalized
           /\ (\A i \in DOMAIN trimmed : trimmed[i] = "/") => normalized = <<"/">>
           /\ ~IsAbsoluteTarget(target) => Head(normalized) = "/"
           /\ "#" \notin {target[i] : i \in DOMAIN target}
                  => QueryStringOf(normalized) = QueryStringOf(trimmed)
           /\ normalizeTarget(normalized) = normalized

InitKeys ==
    /\ ledger = [k \in Keys |-> NoEntry]
    /\ promises = [p \in Callers |-> NoPromise]
    /\ calls = [c \in Callers |-> NoCall]
    /\ invoked = [c \in Callers |-> 0]
    /\ microtasks = <<>>
    /\ request = IdleRequest
    /\ onUnauthorized = NoHandler
    /\ arg \in [method : KeyMethodInputs, target : TargetInputs]
    /\ ret = Undefined
    /\ state = InitialAuthState(JNull)
    /\ storage = [value |-> Undefined, throws |-> FALSE]
    /\ runs = [r \in Runs |-> IdleRun]
    /\ player = InitialPlayer

SpecKeys == InitKeys /\ [][ApplyBuildInFlightKey]_vars

====
